---- MODULE Spec2Model ----
(***************************************************************************)
(* Model of the C review engine of kokiada/ai-coding-agent:                *)
(*   src/src/tools/review_rule_engine.py  (ReviewRuleEngineTool)           *)
(*   src/src/tools/c_code_parser.py       (CCodeParserTool)                *)
(* Python str values are sequences of one-character strings; the str       *)
(* methods the code calls (in, count, lower, split, strip) are operators   *)
(* on such sequences, computed the way CPython computes them.  An ASCII    *)
(* character stands for itself; any other code point is written by name,   *)
(* "U+30D0" for KATAKANA LETTER BA.                                        *)
(***************************************************************************)
EXTENDS Integers, Sequences, FiniteSets, TLC

VARIABLES
    standards,        \* ConfigManager.get_review_standards(): ordered category -> rules
    file_path,        \* argument of _evaluate_file
    code_content,     \* argument of _evaluate_file
    rules_category,   \* argument of _evaluate_file ("" models None: both are falsy)
    pc,               \* position inside _evaluate_file
    queue,            \* (category, rule) pairs the nested loop has still to visit
    applied_rules,    \* evaluation_result["applied_rules"]
    violations,       \* evaluation_result["violations"]
    total_rules,      \* local counter total_rules
    nviolations,      \* local counter violations
    summary,          \* evaluation_result["summary"]
    ran,              \* per visited rule: the evaluator _evaluate_rule called and what it returned
    content,          \* the text of the file CCodeParserTool._run is given
    ppc,              \* position inside _run and, for "matches", inside _extract_functions
    scan_from,        \* where re.finditer resumes: 0-based offset of the end of the last match
    functions,        \* the list _extract_functions builds
    analysis,         \* the dict _run builds, key by key in the order of its display
    run_error,        \* the message of the error dict _run returns, "" while there is none
    file_content,     \* what _run_custom_analysis reads from the file
    readable,         \* whether open() and read() succeed
    apc,              \* position inside _run_custom_analysis
    issues,           \* the list _run_custom_analysis builds
    body_text,        \* argument of _calculate_function_complexity
    cpc,              \* whether _calculate_function_complexity is being called or has returned
    complexity,       \* what it returned for func_body
    base_complexity,  \* what it returned for the body before the if statement was appended
    appended,         \* how many if statements have been appended
    rate_args,        \* arguments of _rate_complexity
    rating,           \* what it returned for rate_args
    rated_before,     \* the arguments before one of them was increased, and their rating
    scan_pc,          \* position inside the loop of _check_performance_patterns
    scan_lines,       \* lines = content.split('\n') of _check_performance_patterns
    scan_i,           \* how many lines the loop has processed
    in_loop,          \* local flag in_loop
    loop_depth,       \* local counter loop_depth
    scan_issues,      \* the list the loop builds
    review_standards_file, \* review_standards.json: <<>> while absent, else <<the standards in it>>
    rules_cache,      \* the lru_cache of get_rules_for_file, most recently used first
    config_call,      \* the call of the ConfigManager that returned last
    returned_path,    \* the argument of the last get_rules_for_file
    returned_rules,   \* what the last get_rules_for_file returned
    config_calls,     \* the number of calls made
    reviewed_files,   \* CReviewResult.reviewed_files
    total_lines_reviewed, \* CReviewResult.total_lines_reviewed
    result_issues,    \* CReviewResult.issues: file_path, severity and category of each
    file_analyses,    \* CReviewResult.file_analyses
    result_summary,   \* CReviewResult.summary
    result_metrics,   \* CReviewResult.metrics, each score an exact fraction
    result_pc,        \* "open" while entries are added, "final" right after finalize
    content_lines,    \* the lines of the content being parsed
    parsed_lines,     \* how many of them the loop has dealt with
    current_category, \* current_category of _parse_standards_content
    parsed_standards, \* the dict standards of _parse_standards_content
    parse_pc,         \* "loop" in the loop, "done" after the return
    structured_standards, \* what _parse_standards_content returned
    review_standards_files, \* the argument of setup_from_files
    files_loaded,     \* how many of the files the loop has loaded
    all_standards,    \* all_standards of setup_from_files
    setup_pc,         \* "loop" in the loop and before the save, "done" after the return
    setup_returned    \* what setup_from_files returned: "True", "False", "none" before

rule_vars == <<standards, file_path, code_content, rules_category, pc, queue,
               applied_rules, violations, total_rules, nviolations, summary, ran>>

parser_vars == <<content, ppc, scan_from, functions, analysis, run_error>>

analyzer_vars == <<file_content, readable, apc, issues>>

complexity_vars == <<body_text, cpc, complexity, base_complexity, appended>>

rating_vars == <<rate_args, rating, rated_before>>

performance_vars == <<scan_pc, scan_lines, scan_i, in_loop, loop_depth, scan_issues>>

config_vars == <<review_standards_file, rules_cache, config_call, returned_path, returned_rules,
                  config_calls>>

result_vars == <<reviewed_files, total_lines_reviewed, result_issues, file_analyses,
                  result_summary, result_metrics, result_pc>>

loader_vars == <<content_lines, parsed_lines, current_category, parsed_standards, parse_pc,
                  structured_standards>>

setup_vars == <<review_standards_files, files_loaded, all_standards, setup_pc, setup_returned>>

vars == <<rule_vars, parser_vars, analyzer_vars, complexity_vars, rating_vars, performance_vars,
          config_vars, result_vars, loader_vars, setup_vars>>

\* for each component, the variables of the other components, which its steps leave alone
outside_rule_vars == <<parser_vars, analyzer_vars, complexity_vars, rating_vars,
        performance_vars, config_vars, result_vars, loader_vars, setup_vars>>
outside_parser_vars == <<rule_vars, analyzer_vars, complexity_vars, rating_vars,
        performance_vars, config_vars, result_vars, loader_vars, setup_vars>>
outside_analyzer_vars == <<rule_vars, parser_vars, complexity_vars, rating_vars,
        performance_vars, config_vars, result_vars, loader_vars, setup_vars>>
outside_complexity_vars == <<rule_vars, parser_vars, analyzer_vars, rating_vars,
        performance_vars, config_vars, result_vars, loader_vars, setup_vars>>
outside_rating_vars == <<rule_vars, parser_vars, analyzer_vars, complexity_vars,
        performance_vars, config_vars, result_vars, loader_vars, setup_vars>>
outside_performance_vars == <<rule_vars, parser_vars, analyzer_vars, complexity_vars,
        rating_vars, config_vars, result_vars, loader_vars, setup_vars>>
outside_config_vars == <<rule_vars, parser_vars, analyzer_vars, complexity_vars, rating_vars,
        performance_vars, result_vars, loader_vars, setup_vars>>
outside_result_vars == <<rule_vars, parser_vars, analyzer_vars, complexity_vars, rating_vars,
        performance_vars, config_vars, loader_vars, setup_vars>>
outside_loader_vars == <<rule_vars, parser_vars, analyzer_vars, complexity_vars, rating_vars,
        performance_vars, config_vars, result_vars, setup_vars>>
outside_setup_vars == <<rule_vars, parser_vars, analyzer_vars, complexity_vars, rating_vars,
        performance_vars, config_vars, result_vars, loader_vars>>

\* setup_from_files works on the file of its ConfigManager: what is outside both
outside_setup_config_vars == <<rule_vars, parser_vars, analyzer_vars, complexity_vars,
        rating_vars, performance_vars, result_vars, loader_vars>>

-----------------------------------------------------------------------------
(* Python str primitives                                                   *)

Min(S) == CHOOSE x \in S : \A y \in S : x <= y

Max(S) == CHOOSE x \in S : \A y \in S : x >= y

\* str.lower() on one character (ASCII letters; other code points have no case)
LowerChar(c) ==
    CASE c = "A" -> "a" [] c = "B" -> "b" [] c = "C" -> "c" [] c = "D" -> "d"
      [] c = "E" -> "e" [] c = "F" -> "f" [] c = "G" -> "g" [] c = "H" -> "h"
      [] c = "I" -> "i" [] c = "J" -> "j" [] c = "K" -> "k" [] c = "L" -> "l"
      [] c = "M" -> "m" [] c = "N" -> "n" [] c = "O" -> "o" [] c = "P" -> "p"
      [] c = "Q" -> "q" [] c = "R" -> "r" [] c = "S" -> "s" [] c = "T" -> "t"
      [] c = "U" -> "u" [] c = "V" -> "v" [] c = "W" -> "w" [] c = "X" -> "x"
      [] c = "Y" -> "y" [] c = "Z" -> "z" [] OTHER -> c

\* s.lower()
Lower(s) == SubSeq([i \in 1..Len(s) |-> LowerChar(s[i])], 1, Len(s))

\* s[i:].startswith(sub), i 1-based
StartsAt(s, sub, i) ==
    /\ i + Len(sub) - 1 <= Len(s)
    /\ \A j \in 1..Len(sub) : s[i + j - 1] = sub[j]

\* sub in s
Contains(s, sub) == \E i \in 1..(Len(s) + 1) : StartsAt(s, sub, i)

\* every place where sub begins, overlapping ones included
Count_overlapping(s, sub) == Cardinality({i \in 1..Len(s) : StartsAt(s, sub, i)})

\* s.count(sub) for non-empty sub: non-overlapping occurrences, leftmost first
RECURSIVE CountFrom(_, _, _)
CountFrom(s, sub, i) ==
    LET hits == {j \in i..(Len(s) - Len(sub) + 1) : StartsAt(s, sub, j)}
    IN  IF hits = {} THEN 0 ELSE 1 + CountFrom(s, sub, Min(hits) + Len(sub))

Count(s, sub) == CountFrom(s, sub, 1)

\* the concatenation of a list of lists: what extend() in a loop, or ''.join, builds
RECURSIVE Concat(_)
Concat(pieces) == IF pieces = <<>> THEN <<>> ELSE Head(pieces) \o Concat(Tail(pieces))

\* str.isspace() on one character
IsSpace(c) == c \in {" ", "\n", "\t"}

\* s.strip()
Strip(s) ==
    LET keep == {i \in 1..Len(s) : ~IsSpace(s[i])}
    IN  IF keep = {} THEN <<>> ELSE SubSeq(s, Min(keep), Max(keep))

\* s.split(sep) for a one-character sep: always at least one field
RECURSIVE SplitOn(_, _)
SplitOn(s, sep) ==
    LET at == {i \in 1..Len(s) : s[i] = sep}
    IN  IF at = {} THEN <<s>>
        ELSE <<SubSeq(s, 1, Min(at) - 1)>> \o SplitOn(SubSeq(s, Min(at) + 1, Len(s)), sep)

\* s.split('\n')
SplitLines(s) == SplitOn(s, "\n")

\* s.split(): maximal runs of non-whitespace characters
RECURSIVE SplitWords(_)
SplitWords(s) ==
    LET keep == {i \in 1..Len(s) : ~IsSpace(s[i])}
    IN  IF keep = {} THEN <<>>
        ELSE LET b == Min(keep)
                 stops == {i \in b..Len(s) : IsSpace(s[i])}
                 e == IF stops = {} THEN Len(s) ELSE Min(stops) - 1
             IN  <<SubSeq(s, b, e)>> \o SplitWords(SubSeq(s, e + 1, Len(s)))

\* str(n) for a non-negative int
RECURSIVE IntToStr(_)
IntToStr(n) ==
    LET digit == <<"0", "1", "2", "3", "4", "5", "6", "7", "8", "9">>
    IN  IF n < 10 THEN <<digit[n + 1]>> ELSE IntToStr(n \div 10) \o <<digit[(n % 10) + 1]>>

\* fnmatch.fnmatch(name, pat) on POSIX (normcase is the identity there):
\* '*' matches any run of characters, '?' any one character, the rest literally
RECURSIVE GlobAt(_, _, _, _)
GlobAt(name, pat, i, j) ==
    IF j > Len(pat) THEN i > Len(name)
    ELSE IF pat[j] = "*" THEN \E k \in i..(Len(name) + 1) : GlobAt(name, pat, k, j + 1)
    ELSE IF i > Len(name) THEN FALSE
    ELSE IF pat[j] = "?" THEN GlobAt(name, pat, i + 1, j + 1)
    ELSE name[i] = pat[j] /\ GlobAt(name, pat, i + 1, j + 1)

fnmatch(name, pat) == GlobAt(name, pat, 1, 1)

-----------------------------------------------------------------------------
(* ReviewRuleEngineTool: the evaluators.  An Optional[Dict] result is a    *)
(* sequence: <<>> for None, <<v>> for a dict v.  A violation dict keeps    *)
(* rule_description, violation_type, severity, detected_pattern and        *)
(* line_number (0 where the dict has no such key); message and suggestion  *)
(* are fixed texts per violation_type around the same interpolated values. *)

s_malloc == <<"m", "a", "l", "l", "o", "c">>

s_calloc == <<"c", "a", "l", "l", "o", "c">>

s_free == <<"f", "r", "e", "e">>

s_malloc_call == s_malloc \o <<"(">>

s_calloc_call == s_calloc \o <<"(">>

s_NULL == <<"N", "U", "L", "L">>

s_null == <<"n", "u", "l", "l">>

\* the list dangerous_functions / the keys of dangerous_funcs, in order
dangerous_functions ==
    << <<"s", "t", "r", "c", "p", "y">>, <<"s", "t", "r", "c", "a", "t">>,
       <<"s", "p", "r", "i", "n", "t", "f">>, <<"g", "e", "t", "s">> >>

Violation(description, type, severity, pattern, line) ==
    [rule_description |-> description, violation_type |-> type, severity |-> severity,
     detected_pattern |-> pattern, line_number |-> line]

\* first func of dangerous_functions with func + '(' in code, as <<func>>, else <<>>
FirstDangerous(code) ==
    LET hit == {k \in 1..Len(dangerous_functions) :
                    Contains(code, dangerous_functions[k] \o <<"(">>)}
    IN  IF hit = {} THEN <<>> ELSE <<dangerous_functions[Min(hit)]>>

\* _check_buffer_overflow tagging the violation with the lower-cased description
_check_buffer_overflow_lowered(code, description) ==
    LET f == FirstDangerous(code)
    IN  IF f = <<>> THEN <<>>
        ELSE <<Violation(Lower(description), "buffer_overflow", "high", f[1], 0)>>

_check_buffer_overflow(code, description) ==
    LET f == FirstDangerous(code)
    IN  IF f = <<>> THEN <<>>
        ELSE <<Violation(description, "buffer_overflow", "high", f[1], 0)>>

_check_memory_leak(code, description) ==
    LET malloc_count == Count(code, s_malloc) + Count(code, s_calloc)
        free_count == Count(code, s_free)
    IN  IF malloc_count > free_count
        THEN <<Violation(description, "memory_leak", "medium",
                         <<"m", "a", "l", "l", "o", "c", ":">> \o IntToStr(malloc_count)
                            \o <<",", " ", "f", "r", "e", "e", ":">> \o IntToStr(free_count),
                         0)>>
        ELSE <<>>

\* the inner loop over range(i + 1, min(i + 5, len(lines))), i 0-based; here i is 1-based
NullCheckFound(lines, i) ==
    \E j \in (i + 1)..Min({i + 4, Len(lines)}) :
        Contains(lines[j], s_NULL) \/ Contains(lines[j], s_null)

IsAllocAssign(line) ==
    (Contains(line, s_malloc_call) \/ Contains(line, s_calloc_call)) /\ Contains(line, <<"=">>)

_check_null_pointer(code, description) ==
    LET lines == SplitLines(code)
        bad == {i \in 1..Len(lines) : IsAllocAssign(lines[i]) /\ ~NullCheckFound(lines, i)}
    IN  IF bad = {} THEN <<>>
        ELSE <<Violation(description, "null_pointer", "medium",
                         Strip(lines[Min(bad)]), Min(bad))>>

_check_dangerous_functions(code, description) ==
    LET f == FirstDangerous(code)
    IN  IF f = <<>> THEN <<>>
        ELSE <<Violation(description, "dangerous_function", "high", f[1], 0)>>

_check_error_handling(code, description) ==
    IF ~Contains(code, <<"r", "e", "t", "u", "r", "n">>) /\ ~Contains(code, <<"v", "o", "i", "d">>)
    THEN <<Violation(description, "error_handling", "medium",
                     <<"m", "i", "s", "s", "i", "n", "g", "_", "r", "e", "t", "u", "r", "n",
                       "_", "v", "a", "l", "u", "e">>, 0)>>
    ELSE <<>>

IsLoopLine(line) ==
    \/ Contains(line, <<"f", "o", "r", "(">>)
    \/ Contains(line, <<"w", "h", "i", "l", "e", "(">>)
    \/ Contains(line, <<"d", "o", "{">>)

\* in_loop of _check_performance after the if/elif of line i (1-based), starting False
RECURSIVE RuleInLoop(_, _)
RuleInLoop(lines, i) ==
    IF i = 0 THEN FALSE
    ELSE IF IsLoopLine(lines[i]) THEN TRUE
    ELSE IF Contains(lines[i], <<"}">>) THEN FALSE
    ELSE RuleInLoop(lines, i - 1)

_check_performance(code, description) ==
    LET lines == SplitLines(code)
        bad == {i \in 1..Len(lines) :
                    /\ RuleInLoop(lines, i)
                    /\ (Contains(lines[i], s_malloc_call) \/ Contains(lines[i], s_calloc_call))}
    IN  IF bad = {} THEN <<>>
        ELSE <<Violation(description, "performance", "medium",
                         Strip(lines[Min(bad)]), Min(bad))>>

CommentMinLines == 20

_check_comments(code, description) ==
    LET comment_count == Count(code, <<"/", "/">>) + Count(code, <<"/", "*">>)
        line_count == Len(SplitLines(code))
    IN  IF line_count > CommentMinLines /\ comment_count = 0
        THEN <<Violation(description, "documentation", "low",
                         <<"l", "i", "n", "e", "s", ":">> \o IntToStr(line_count)
                            \o <<",", " ", "c", "o", "m", "m", "e", "n", "t", "s", ":">>
                            \o IntToStr(comment_count),
                         0)>>
        ELSE <<>>

GenericMinLen == 3

\* rule.get("priority", "low"): the key is there, _evaluate_file has read rule["priority"]
\* (line 85) before it evaluates the rule
RulePriorityOrLow(rule) == rule.priority

\* the generic check comparing the word with the code as written, without lower()
_check_generic_rule_case_sensitive(rule, code, description) ==
    LET keywords == SplitWords(description)
        hit == {k \in 1..Len(keywords) :
                    /\ Len(keywords[k]) > GenericMinLen
                    /\ Contains(code, keywords[k])}
    IN  IF hit = {} THEN <<>>
        ELSE <<Violation(description, "generic", RulePriorityOrLow(rule),
                         keywords[Min(hit)], 0)>>

_check_generic_rule(rule, code, description) ==
    LET keywords == SplitWords(description)
        hit == {k \in 1..Len(keywords) :
                    /\ Len(keywords[k]) > GenericMinLen
                    /\ Contains(Lower(code), Lower(keywords[k]))}
    IN  IF hit = {} THEN <<>>
        ELSE <<Violation(description, "generic", RulePriorityOrLow(rule),
                         keywords[Min(hit)], 0)>>

\* the condition of one branch of _evaluate_rule's if/elif chain (lines 147-165): the
\* Japanese keyword in the description as written, or the English one in its lower()
KeywordOccurs(family, description) ==
    CASE family = "buffer_overflow" ->
             \/ Contains(description, <<"U+30D0", "U+30C3", "U+30D5", "U+30A1", "U+30AA",
                                        "U+30FC", "U+30D0", "U+30FC", "U+30D5", "U+30ED",
                                        "U+30FC">>)
             \/ Contains(Lower(description), <<"b", "u", "f", "f", "e", "r", " ", "o", "v", "e",
                                               "r", "f", "l", "o", "w">>)
      [] family = "memory_leak" ->
             \/ Contains(description, <<"U+30E1", "U+30E2", "U+30EA", "U+30EA", "U+30FC",
                                        "U+30AF">>)
             \/ Contains(Lower(description), <<"m", "e", "m", "o", "r", "y", " ", "l", "e", "a",
                                               "k">>)
      [] family = "null_pointer" ->
             \/ Contains(description, <<"U+30CC", "U+30EB">>)
             \/ Contains(Lower(description), <<"n", "u", "l", "l">>)
      [] family = "dangerous_function" ->
             \/ Contains(description, <<"U+5371", "U+967A", "U+306A", "U+95A2", "U+6570">>)
             \/ Contains(Lower(description), <<"d", "a", "n", "g", "e", "r", "o", "u", "s", " ",
                                               "f", "u", "n", "c", "t", "i", "o", "n">>)
      [] family = "error_handling" ->
             \/ Contains(description, <<"U+30A8", "U+30E9", "U+30FC", "U+30CF", "U+30F3",
                                        "U+30C9", "U+30EA", "U+30F3", "U+30B0">>)
             \/ Contains(Lower(description), <<"e", "r", "r", "o", "r", " ", "h", "a", "n", "d",
                                               "l", "i", "n", "g">>)
      [] family = "performance" ->
             \/ Contains(description, <<"U+30D1", "U+30D5", "U+30A9", "U+30FC", "U+30DE",
                                        "U+30F3", "U+30B9">>)
             \/ Contains(Lower(description), <<"p", "e", "r", "f", "o", "r", "m", "a", "n", "c",
                                               "e">>)
      [] family = "documentation" ->
             \/ Contains(description, <<"U+30B3", "U+30E1", "U+30F3", "U+30C8">>)
             \/ Contains(Lower(description), <<"c", "o", "m", "m", "e", "n", "t">>)
      [] OTHER -> FALSE

\* the chain with the null-pointer branch tested before the memory-leak branch
RuleFamily_null_first(description) ==
    IF KeywordOccurs("buffer_overflow", description) THEN "buffer_overflow"
    ELSE IF KeywordOccurs("null_pointer", description) THEN "null_pointer"
    ELSE IF KeywordOccurs("memory_leak", description) THEN "memory_leak"
    ELSE IF KeywordOccurs("dangerous_function", description) THEN "dangerous_function"
    ELSE IF KeywordOccurs("error_handling", description) THEN "error_handling"
    ELSE IF KeywordOccurs("performance", description) THEN "performance"
    ELSE IF KeywordOccurs("documentation", description) THEN "documentation"
    ELSE "generic"

\* the chain with a final branch whose keyword is the empty string, which every
\* description contains
RuleFamily_empty_keyword(description) ==
    IF KeywordOccurs("buffer_overflow", description) THEN "buffer_overflow"
    ELSE IF KeywordOccurs("memory_leak", description) THEN "memory_leak"
    ELSE IF KeywordOccurs("null_pointer", description) THEN "null_pointer"
    ELSE IF KeywordOccurs("dangerous_function", description) THEN "dangerous_function"
    ELSE IF KeywordOccurs("error_handling", description) THEN "error_handling"
    ELSE IF KeywordOccurs("performance", description) THEN "performance"
    ELSE IF KeywordOccurs("documentation", description) \/ Contains(description, <<>>)
    THEN "documentation"
    ELSE "generic"

\* the if/elif chain of _evaluate_rule: which evaluator the description selects
RuleFamily(description) ==
    IF KeywordOccurs("buffer_overflow", description) THEN "buffer_overflow"
    ELSE IF KeywordOccurs("memory_leak", description) THEN "memory_leak"
    ELSE IF KeywordOccurs("null_pointer", description) THEN "null_pointer"
    ELSE IF KeywordOccurs("dangerous_function", description) THEN "dangerous_function"
    ELSE IF KeywordOccurs("error_handling", description) THEN "error_handling"
    ELSE IF KeywordOccurs("performance", description) THEN "performance"
    ELSE IF KeywordOccurs("documentation", description) THEN "documentation"
    ELSE "generic"

_evaluate_rule(rule, code, path) ==
    LET description == rule.description
        family == RuleFamily(description)
    IN  CASE family = "buffer_overflow" -> _check_buffer_overflow(code, description)
          [] family = "memory_leak" -> _check_memory_leak(code, description)
          [] family = "null_pointer" -> _check_null_pointer(code, description)
          [] family = "dangerous_function" -> _check_dangerous_functions(code, description)
          [] family = "error_handling" -> _check_error_handling(code, description)
          [] family = "performance" -> _check_performance(code, description)
          [] family = "documentation" -> _check_comments(code, description)
          [] OTHER -> _check_generic_rule(rule, code, description)

-----------------------------------------------------------------------------
(* Rules and the configured standards.  A dict category -> rules keeps its *)
(* insertion order: a sequence of [category, rules].  A rule dict has the  *)
(* keys description, priority and category; applicable_files may be absent *)
(* (has_applicable_files = FALSE), which rule.get() then defaults.         *)

Rule(description, priority, has_files, files, category) ==
    [description |-> description, priority |-> priority,
     has_applicable_files |-> has_files, applicable_files |-> files, category |-> category]

\* ConfigManager._get_default_review_standards()
_get_default_review_standards ==
    <<
      [category |-> "security",
       rules |-> <<
          Rule(<<"U+30D0", "U+30C3", "U+30D5", "U+30A1", "U+30AA", "U+30FC", "U+30D0", "U+30FC",
                 "U+30D5", "U+30ED", "U+30FC", "U+306E", "U+9632", "U+6B62">>,
               "high", TRUE, << <<"*", ".", "c">>, <<"*", ".", "h">> >>, "security"),
          Rule(<<"U+5165", "U+529B", "U+5024", "U+691C", "U+8A3C", "U+306E", "U+5B9F",
                 "U+88C5">>,
               "high", TRUE, << <<"*", ".", "c">> >>, "security"),
          Rule(<<"U+5371", "U+967A", "U+306A", "U+95A2", "U+6570", "U+306E", "U+56DE",
                 "U+907F">>,
               "high", TRUE, << <<"*", ".", "c">> >>, "security")
       >>],
      [category |-> "memory_management",
       rules |-> <<
          Rule(<<"U+30E1", "U+30E2", "U+30EA", "U+30EA", "U+30FC", "U+30AF", "U+306E", "U+9632",
                 "U+6B62">>,
               "high", TRUE, << <<"*", ".", "c">> >>, "memory_management"),
          Rule(<<"N", "U", "L", "L", "U+30DD", "U+30A4", "U+30F3", "U+30BF", "U+30A2", "U+30AF",
                 "U+30BB", "U+30B9", "U+306E", "U+9632", "U+6B62">>,
               "high", TRUE, << <<"*", ".", "c">> >>, "memory_management"),
          Rule(<<"U+9069", "U+5207", "U+306A", "U+30DD", "U+30A4", "U+30F3", "U+30BF", "U+7BA1",
                 "U+7406">>,
               "medium", TRUE, << <<"*", ".", "c">>, <<"*", ".", "h">> >>, "memory_management")
       >>],
      [category |-> "performance",
       rules |-> <<
          Rule(<<"U+30EB", "U+30FC", "U+30D7", "U+52B9", "U+7387", "U+306E", "U+6700", "U+9069",
                 "U+5316">>,
               "medium", TRUE, << <<"*", ".", "c">> >>, "performance"),
          Rule(<<"U+95A2", "U+6570", "U+547C", "U+3073", "U+51FA", "U+3057", "U+30B3", "U+30B9",
                 "U+30C8", "U+306E", "U+8003", "U+616E">>,
               "medium", TRUE, << <<"*", ".", "c">> >>, "performance")
       >>],
      [category |-> "code_quality",
       rules |-> <<
          Rule(<<"U+9069", "U+5207", "U+306A", "U+30B3", "U+30E1", "U+30F3", "U+30C8", "U+306E",
                 "U+8A18", "U+8FF0">>,
               "low", TRUE, << <<"*", ".", "c">>, <<"*", ".", "h">> >>, "code_quality"),
          Rule(<<"U+30DE", "U+30B8", "U+30C3", "U+30AF", "U+30CA", "U+30F3", "U+30D0", "U+30FC",
                 "U+306E", "U+56DE", "U+907F">>,
               "medium", TRUE, << <<"*", ".", "c">> >>, "code_quality")
       >>]
    >>

\* rule.get("applicable_files", ["*"])
RuleApplicableFiles(rule) ==
    IF rule.has_applicable_files THEN rule.applicable_files ELSE << <<"*">> >>

\* _file_matches_patterns looking at the first pattern only
_file_matches_patterns_first_only(path, patterns) ==
    patterns # <<>> /\ fnmatch(path, patterns[1])

_file_matches_patterns(path, patterns) ==
    \E k \in 1..Len(patterns) : fnmatch(path, patterns[k])

\* the inner loop of _get_applicable_rules over one category's rules
RECURSIVE ApplicableCategoryRules(_, _)
ApplicableCategoryRules(path, rules) ==
    IF rules = <<>> THEN <<>>
    ELSE (IF _file_matches_patterns(path, RuleApplicableFiles(Head(rules)))
          THEN <<Head(rules)>> ELSE <<>>)
         \o ApplicableCategoryRules(path, Tail(rules))

\* the outer loop of _get_applicable_rules: categories left without a rule are dropped
RECURSIVE _get_applicable_rules_from(_, _)
_get_applicable_rules_from(path, stds) ==
    IF stds = <<>> THEN <<>>
    ELSE LET applicable_category_rules == ApplicableCategoryRules(path, Head(stds).rules)
         IN  (IF applicable_category_rules # <<>>
              THEN <<[category |-> Head(stds).category, rules |-> applicable_category_rules]>>
              ELSE <<>>)
             \o _get_applicable_rules_from(path, Tail(stds))

_get_applicable_rules(path) == _get_applicable_rules_from(path, standards)

\* applicable_rules.get(rules_category, [])
GetCategory(applicable, cat) ==
    LET at == {k \in 1..Len(applicable) : applicable[k].category = cat}
    IN  IF at = {} THEN <<>> ELSE applicable[Min(at)].rules

\* applicable_rules of _evaluate_file once the rules_category filter is applied
FilteredRules(path, cat) ==
    IF cat # "" THEN <<[category |-> cat, rules |-> GetCategory(_get_applicable_rules(path), cat)]>>
    ELSE _get_applicable_rules(path)

\* LoopOrder visiting the categories last to first
RECURSIVE LoopOrder_reversed(_)
LoopOrder_reversed(applicable) ==
    IF applicable = <<>> THEN <<>>
    ELSE LoopOrder_reversed(Tail(applicable))
         \o [k \in 1..Len(Head(applicable).rules) |->
                [category |-> Head(applicable).category, rule |-> Head(applicable).rules[k]]]

\* the (category, rule) pairs in the order the nested for loops visit them
RECURSIVE LoopOrder(_)
LoopOrder(applicable) ==
    IF applicable = <<>> THEN <<>>
    ELSE [k \in 1..Len(Head(applicable).rules) |->
             [category |-> Head(applicable).category, rule |-> Head(applicable).rules[k]]]
         \o LoopOrder(Tail(applicable))

\* ComplianceScore without the total_rules > 0 guard's 100.0: the initial 0.0 is kept
ComplianceScore_keeps_initial(total, viol) ==
    IF total > 0 THEN [num |-> (total - viol) * 100, den |-> total]
    ELSE [num |-> 0, den |-> 1]

\* ComplianceScore reporting the share of violated rules
ComplianceScore_violated_share(total, viol) ==
    IF total > 0 THEN [num |-> viol * 100, den |-> total]
    ELSE [num |-> 100, den |-> 1]

\* (total_rules - violations) / total_rules * 100 if total_rules > 0 else 100.0, kept as the
\* exact fraction num/den that the float approximates
ComplianceScore(total, viol) ==
    IF total > 0 THEN [num |-> (total - viol) * 100, den |-> total]
    ELSE [num |-> 100, den |-> 1]

-----------------------------------------------------------------------------
(* Inputs of the rule engine                                               *)

MaxCodeLines == 2

MaxRules == 2

Descriptions ==
    <<
        <<"B", "u", "f", "f", "e", "r", " ", "O", "v", "e", "r", "f", "l", "o", "w">>,
        <<"m", "e", "m", "o", "r", "y", " ", "l", "e", "a", "k">>,
        <<"N", "U", "L", "L", " ", "c", "h", "e", "c", "k">>,
        <<"D", "a", "n", "g", "e", "r", "o", "u", "s", " ", "F", "u", "n", "c", "t", "i", "o",
          "n">>,
        <<"e", "r", "r", "o", "r", " ", "h", "a", "n", "d", "l", "i", "n", "g">>,
        <<"p", "e", "r", "f", "o", "r", "m", "a", "n", "c", "e">>,
        <<"U+9069", "U+5207", "U+306A", "U+30B3", "U+30E1", "U+30F3", "U+30C8", "U+306E",
          "U+8A18", "U+8FF0">>,
        <<"m", "e", "m", "o", "r", "y", " ", "l", "e", "a", "k", " ", "a", "n", "d", " ", "n",
          "u", "l", "l">>,
        <<"n", "u", "l", "l", " ", "b", "e", "f", "o", "r", "e", " ", "b", "u", "f", "f", "e",
          "r", " ", "o", "v", "e", "r", "f", "l", "o", "w">>,
        <<"c", "o", "m", "m", "e", "n", "t", " ", "o", "n", " ", "p", "e", "r", "f", "o", "r",
          "m", "a", "n", "c", "e">>,
        <<"a", "v", "o", "i", "d", " ", "g", "o", "t", "o">>,
        <<"d", "o", "c", "u", "m", "e", "n", "t", "a", "t", "i", "o", "n">>,
        <<"a", " ", "b", "c", " ", "d", "e", "f">>,
        <<"u", "s", "e", "\t", "M", "A", "L", "L", "O", "C">>,
        <<>> >>

CodeLineChoices ==
    <<
        <<"p", " ", "=", " ", "m", "a", "l", "l", "o", "c", "(", "n", ")", ";">>,
        <<"i", "f", " ", "(", "p", " ", "=", "=", " ", "N", "U", "L", "L", ")", " ", "r", "e",
          "t", "u", "r", "n", ";">>,
        <<"g", "e", "t", "s", "(", "s", ")", ";", " ", "s", "t", "r", "c", "a", "t", "(", "a",
          ",", " ", "b", ")", ";">>,
        <<"f", "r", "e", "e", "(", "p", ")", ";">>,
        <<"f", "o", "r", "(", ";", ";", ")", " ", "{">>,
        <<"}">>,
        <<" ", " ", "G", "O", "T", "O", " ", "x", ";", " ", "/", "/", " ", "c">> >>

Priorities == {"high", "medium", "low"}

JoinLines(ls) ==
    IF ls = <<>> THEN <<>>
    ELSE LET RECURSIVE J(_)
             J(k) == IF k = 1 THEN ls[1] ELSE J(k - 1) \o <<"\n">> \o ls[k]
         IN  J(Len(ls))

\* source texts of at most MaxCodeLines lines
Codes ==
    UNION {{JoinLines([k \in 1..n |-> CodeLineChoices[f[k]]]) :
                f \in [1..n -> 1..Len(CodeLineChoices)]} : n \in 0..MaxCodeLines}

\* 21 lines without a comment
LongCode == JoinLines([k \in 1..(CommentMinLines + 1) |-> <<"x", ";">>])

Paths == {<<"a", ".", "c">>, <<"a", ".", "h">>, <<"s", "r", "c", "/", "b", ".", "c">>}

\* rules_category: None (""), a configured category, a category nothing is configured under
CategoryFilters == {"", "security", "other"}

\* the rules a many-rule configuration is drawn from
RulePool(cat) ==
    << Rule(Descriptions[1], "low", TRUE, << <<"*", ".", "c">> >>, cat),
       Rule(Descriptions[2], "low", TRUE, << <<"*", ".", "c">>, <<"*", ".", "h">> >>, cat),
       Rule(Descriptions[11], "medium", FALSE, <<>>, cat),
       Rule(Descriptions[15], "high", TRUE, << <<"*", ".", "h">> >>, cat),
       Rule(Descriptions[3], "high", TRUE, << <<"s", "r", "c", "/", "*">>, <<"?", ".", "h">> >>, cat) >>

PoolSize == Len(RulePool("custom"))

\* n rules of the pool, the first k under category a and the rest under category b
PoolStandards(f, n, k, a, b) ==
    (IF k > 0 THEN <<[category |-> a, rules |-> [i \in 1..k |-> RulePool(a)[f[i]]]]>> ELSE <<>>)
    \o (IF k < n THEN <<[category |-> b, rules |-> [i \in 1..(n - k) |-> RulePool(b)[f[k + i]]]]>>
        ELSE <<>>)

ManyStandards ==
    UNION {{PoolStandards(f, n, k, ab[1], ab[2]) :
                f \in [1..n -> 1..PoolSize], k \in 0..n,
                ab \in {<<"security", "custom">>, <<"custom", "security">>}} : n \in 0..MaxRules}

CodeSamples ==
    { <<>>,
      JoinLines(<<CodeLineChoices[3], CodeLineChoices[1]>>),
      JoinLines(<<CodeLineChoices[1], CodeLineChoices[2], CodeLineChoices[7], CodeLineChoices[4]>>) }

-----------------------------------------------------------------------------
(* ReviewRuleEngineTool._evaluate_file as a state machine                  *)

\* the evaluation_result["summary"] literal of lines 68-72
InitialSummary ==
    [total_rules |-> 0, violations_found |-> 0, compliance_score |-> [num |-> 0, den |-> 1]]

\* before the call: the arguments and the configuration are chosen, nothing is computed yet
RuleIdle ==
    /\ pc = "call"
    /\ queue = <<>>
    /\ applied_rules = <<>>
    /\ violations = <<>>
    /\ total_rules = 0
    /\ nviolations = 0
    /\ summary = InitialSummary
    /\ ran = <<>>

\* one rule of any description, applicable to every file, against every small source text
InitOneRule ==
    /\ \E d \in 1..Len(Descriptions), p \in Priorities :
          standards = <<[category |-> "custom",
                         rules |-> <<Rule(Descriptions[d], p, FALSE, <<>>, "custom")>>]>>
    /\ code_content \in Codes \cup {LongCode}
    /\ file_path = <<"a", ".", "c">>
    /\ rules_category = ""

\* up to MaxRules rules in up to two categories, or the default standards
InitManyRules ==
    /\ standards \in ManyStandards \cup {_get_default_review_standards}
    /\ code_content \in CodeSamples
    /\ file_path \in Paths
    /\ rules_category \in CategoryFilters

\* no rule evaluation is in progress
RuleOff ==
    /\ standards = <<>>
    /\ file_path = <<>>
    /\ code_content = <<>>
    /\ rules_category = ""
    /\ pc = "off"
    /\ queue = <<>>
    /\ applied_rules = <<>>
    /\ violations = <<>>
    /\ total_rules = 0
    /\ nviolations = 0
    /\ summary = InitialSummary
    /\ ran = <<>>

\* the parser is not in use
ParserOff ==
    /\ content = <<>>
    /\ ppc = "off"
    /\ scan_from = 0
    /\ functions = <<>>
    /\ analysis = <<>>
    /\ run_error = ""

\* no detector run is in progress
AnalyzerOff ==
    /\ file_content = <<>>
    /\ readable = TRUE
    /\ apc = "off"
    /\ issues = <<>>

\* no function body is being measured
ComplexityOff ==
    /\ body_text = <<>>
    /\ cpc = "off"
    /\ complexity = <<>>
    /\ base_complexity = <<>>
    /\ appended = 0

\* no triple is being rated
RatingOff ==
    /\ rate_args = <<>>
    /\ rating = ""
    /\ rated_before = <<>>

\* no line-by-line scan of the performance pass is in progress
PerformanceOff ==
    /\ scan_pc = "off"
    /\ scan_lines = <<>>
    /\ scan_i = 0
    /\ in_loop = FALSE
    /\ loop_depth = 0
    /\ scan_issues = <<>>

\* no ConfigManager is in use
ConfigOff ==
    /\ review_standards_file = <<>>
    /\ rules_cache = <<>>
    /\ config_call = "off"
    /\ returned_path = <<>>
    /\ returned_rules = <<>>
    /\ config_calls = 0

\* no CReviewResult is being built
ResultOff ==
    /\ reviewed_files = <<>>
    /\ total_lines_reviewed = 0
    /\ result_issues = <<>>
    /\ file_analyses = <<>>
    /\ result_summary = <<>>
    /\ result_metrics = <<>>
    /\ result_pc = "off"

\* no standards file is being parsed
LoaderOff ==
    /\ content_lines = <<>>
    /\ parsed_lines = 0
    /\ current_category = ""
    /\ parsed_standards = <<>>
    /\ parse_pc = "off"
    /\ structured_standards = <<>>

\* no setup_from_files is running
SetupOff ==
    /\ review_standards_files = <<>>
    /\ files_loaded = 0
    /\ all_standards = <<>>
    /\ setup_pc = "off"
    /\ setup_returned = "off"

\* every component but the named one is at rest
OthersOff(component) ==
    /\ component = "rule" \/ RuleOff
    /\ component = "parser" \/ ParserOff
    /\ component = "analyzer" \/ AnalyzerOff
    /\ component = "complexity" \/ ComplexityOff
    /\ component = "rating" \/ RatingOff
    /\ component = "performance" \/ PerformanceOff
    /\ component \in {"config", "setup"} \/ ConfigOff
    /\ component = "result" \/ ResultOff
    /\ component = "loader" \/ LoaderOff
    /\ component = "setup" \/ SetupOff

Init == (InitOneRule \/ InitManyRules) /\ RuleIdle /\ OthersOff("rule")

\* lines 56-76: the applicable rules, the filter, the empty result
evaluate_file_begin ==
    /\ pc = "call"
    /\ queue' = LoopOrder(FilteredRules(file_path, rules_category))
    /\ applied_rules' = <<>>
    /\ violations' = <<>>
    /\ total_rules' = 0
    /\ nviolations' = 0
    /\ summary' = InitialSummary
    /\ pc' = "loop"
    /\ UNCHANGED <<standards, file_path, code_content, rules_category, ran>>
    /\ UNCHANGED outside_rule_vars

\* violation["category"] = category
WithCategory(v, category) ==
    [rule_description |-> v.rule_description, violation_type |-> v.violation_type,
     severity |-> v.severity, detected_pattern |-> v.detected_pattern,
     line_number |-> v.line_number, category |-> category]

\* lines 80-93: one iteration of the inner loop
evaluate_file_rule ==
    /\ pc = "loop"
    /\ queue # <<>>
    /\ LET category == Head(queue).category
           rule == Head(queue).rule
           violation == _evaluate_rule(rule, code_content, file_path)
       IN  /\ total_rules' = total_rules + 1
           /\ applied_rules' = Append(applied_rules,
                                      [category |-> category, description |-> rule.description,
                                       priority |-> rule.priority])
           /\ IF violation # <<>>
              THEN /\ nviolations' = nviolations + 1
                   /\ violations' = Append(violations, WithCategory(violation[1], category))
              ELSE UNCHANGED <<nviolations, violations>>
           /\ ran' = Append(ran, [category |-> category, rule |-> rule,
                                  evaluator |-> RuleFamily(rule.description),
                                  result |-> violation])
    /\ queue' = Tail(queue)
    /\ UNCHANGED <<standards, file_path, code_content, rules_category, pc, summary>>
    /\ UNCHANGED outside_rule_vars

\* lines 96-102: the summary
evaluate_file_summary ==
    /\ pc = "loop"
    /\ queue = <<>>
    /\ summary' = [total_rules |-> total_rules, violations_found |-> nviolations,
                   compliance_score |-> ComplianceScore(total_rules, nviolations)]
    /\ pc' = "done"
    /\ UNCHANGED <<standards, file_path, code_content, rules_category, queue,
                   applied_rules, violations, total_rules, nviolations, ran>>
    /\ UNCHANGED outside_rule_vars

Next == evaluate_file_begin \/ evaluate_file_rule \/ evaluate_file_summary

Spec == Init /\ [][Next]_vars

-----------------------------------------------------------------------------
(* CCodeParserTool: function extraction.  Offsets are Python's: a          *)
(* position p (0-based) stands before the character content[p + 1].        *)
(* A regular expression is run as the set of positions it can reach.       *)

\* \s on one character
IsReSpace(c) == c \in {" ", "\n", "\t", "\r"}

\* \w on one character
IsWordChar(c) ==
    c \in {"a", "b", "c", "d", "e", "f", "g", "h", "i", "j", "k", "l", "m", "n", "o", "p", "q",
           "r", "s", "t", "u", "v", "w", "x", "y", "z", "A", "B", "C", "D", "E", "F", "G", "H",
           "I", "J", "K", "L", "M", "N", "O", "P", "Q", "R", "S", "T", "U", "V", "W", "X", "Y",
           "Z", "0", "1", "2", "3", "4", "5", "6", "7", "8", "9", "_"}

\* the character classes of the patterns: \s, \w, [^)], [^}], [^;] and . (no line break)
InClass(c, class) ==
    CASE class = "\\s" -> IsReSpace(c)
      [] class = "\\w" -> IsWordChar(c)
      [] class = "[^)]" -> c # ")"
      [] class = "[^}]" -> c # "}"
      [] class = "[^;]" -> c # ";"
      [] class = "." -> c # "\n"

\* the positions after a run of at least `least` characters of the class, begun at a position of P
AfterRun(text, P, class, least) ==
    {q \in 0..Len(text) : \E b \in P : /\ b + least <= q
                                       /\ \A i \in (b + 1)..q : InClass(text[i], class)}

\* the positions after the one character c, read at a position of P
AfterChar(text, P, c) == {b + 1 : b \in {x \in P : x < Len(text) /\ text[x + 1] = c}}

\* (?:static\s+|inline\s+|extern\s+)*
RECURSIVE AfterStorageWords(_, _)
AfterStorageWords(text, P) ==
    LET words == { <<"s", "t", "a", "t", "i", "c">>, <<"i", "n", "l", "i", "n", "e">>,
                   <<"e", "x", "t", "e", "r", "n">> }
        exact == UNION {{b + Len(w) : w \in {v \in words : StartsAt(text, v, b + 1)}} : b \in P}
        more == P \cup AfterRun(text, exact, "\\s", 1)
    IN  IF more = P THEN P ELSE AfterStorageWords(text, more)

\* (?:\s*\*\s*)*: nothing, or a run of whitespace and '*' with a '*' in it
AfterPointers(text, P) ==
    LET Ok(c) == IsReSpace(c) \/ c = "*"
    IN  P \cup {q \in 0..Len(text) :
                   \E b \in P : /\ b < q
                                /\ \A i \in (b + 1)..q : Ok(text[i])
                                /\ \E i \in (b + 1)..q : text[i] = "*"}

\* func_pattern (line 58) matched from offset b: the offsets its match can end at
FuncPatternEnds(text, b) ==
    LET type_end == AfterPointers(text, AfterRun(text, AfterStorageWords(text, {b}), "\\w", 1))
        name_end == AfterRun(text, AfterRun(text, type_end, "\\s", 1), "\\w", 1)
        open == AfterChar(text, AfterRun(text, name_end, "\\s", 0), "(")
        close == AfterChar(text, AfterRun(text, open, "[^)]", 0), ")")
    IN  AfterChar(text, AfterRun(text, close, "\\s", 0), "{")

\* re.finditer's next match at or after offset `from`: <<start, end>>, or <<>> when there is none
NextFuncMatch(text, from) ==
    LET starts == {b \in from..Len(text) : FuncPatternEnds(text, b) # {}}
    IN  IF starts = {} THEN <<>>
        ELSE <<Min(starts), Max(FuncPatternEnds(text, Min(starts)))>>

\* the while loop of _find_function_end from offset pos
RECURSIVE FindEndFrom(_, _, _, _)
FindEndFrom(text, pos, brace_count, found_start) ==
    LET braces == {q \in pos..(Len(text) - 1) : text[q + 1] \in {"{", "}"}}
    IN  IF braces = {} THEN Len(text)
        ELSE LET at == Min(braces)
             IN  IF text[at + 1] = "{" THEN FindEndFrom(text, at + 1, brace_count + 1, TRUE)
                 ELSE IF found_start /\ brace_count - 1 = 0 THEN at + 1
                 ELSE FindEndFrom(text, at + 1, brace_count - 1, found_start)

_find_function_end(text, start_pos) == FindEndFrom(text, start_pos, 0, FALSE)

\* text[a:b]
Slice(text, a, b) == SubSeq(text, a + 1, b)

\* the loop of _calculate_nesting_level over code[1..n]: <<max_level, current_level>>
RECURSIVE NestingScan(_, _)
NestingScan(code, n) ==
    LET braces == {i \in 1..n : code[i] \in {"{", "}"}}
    IN  IF braces = {} THEN <<0, 0>>
        ELSE LET at == Max(braces)
                 before == NestingScan(code, at - 1)
             IN  IF code[at] = "{"
                 THEN <<Max({before[1], before[2] + 1}), before[2] + 1>>
                 ELSE <<before[1], before[2] - 1>>

_calculate_nesting_level(code) == NestingScan(code, Len(code))[1]

\* the rating with the first test asking for all three numbers to be large
_rate_complexity_all_three(cyclomatic, line_count, nesting) ==
    IF cyclomatic > 20 /\ line_count > 100 /\ nesting > 5 THEN "very_high"
    ELSE IF cyclomatic > 10 \/ line_count > 50 \/ nesting > 3 THEN "high"
    ELSE IF cyclomatic > 5 \/ line_count > 25 \/ nesting > 2 THEN "medium"
    ELSE "low"

_rate_complexity(cyclomatic, line_count, nesting) ==
    IF cyclomatic > 20 \/ line_count > 100 \/ nesting > 5 THEN "very_high"
    ELSE IF cyclomatic > 10 \/ line_count > 50 \/ nesting > 3 THEN "high"
    ELSE IF cyclomatic > 5 \/ line_count > 25 \/ nesting > 2 THEN "medium"
    ELSE "low"

\* the complexity with the count of 'if' subtracted instead of added
_calculate_function_complexity_if_subtracted(func_body) ==
    LET decision_points ==
            Count(func_body, <<"w", "h", "i", "l", "e">>) - Count(func_body, <<"i", "f">>)
            + Count(func_body, <<"f", "o", "r">>) + Count(func_body, <<"s", "w", "i", "t", "c", "h">>)
            + Count(func_body, <<"c", "a", "s", "e">>) + Count(func_body, <<"&", "&">>)
            + Count(func_body, <<"|", "|">>)
        cyclomatic == decision_points + 1
        line_count == Count(func_body, <<"\n">>)
        nested_level == _calculate_nesting_level(func_body)
    IN  [cyclomatic_complexity |-> cyclomatic, line_count |-> line_count,
         nesting_level |-> nested_level,
         complexity_rating |-> _rate_complexity(cyclomatic, line_count, nested_level)]

_calculate_function_complexity(func_body) ==
    LET decision_points ==
            Count(func_body, <<"i", "f">>) + Count(func_body, <<"w", "h", "i", "l", "e">>)
            + Count(func_body, <<"f", "o", "r">>) + Count(func_body, <<"s", "w", "i", "t", "c",
                                                                       "h">>)
            + Count(func_body, <<"c", "a", "s", "e">>) + Count(func_body, <<"&", "&">>)
            + Count(func_body, <<"|", "|">>)
        cyclomatic == decision_points + 1
        line_count == Count(func_body, <<"\n">>)
        nested_level == _calculate_nesting_level(func_body)
    IN  [cyclomatic_complexity |-> cyclomatic, line_count |-> line_count,
         nesting_level |-> nested_level,
         complexity_rating |-> _rate_complexity(cyclomatic, line_count, nested_level)]

\* the three checks of _analyze_function_issues, each message named by what it reports
_analyze_function_issues(func_body) ==
    (IF Count(func_body, <<"\n">>) > 50 THEN <<"too_long">> ELSE <<>>)
    \o (IF _calculate_function_complexity(func_body).cyclomatic_complexity > 10
        THEN <<"too_complex">> ELSE <<>>)
    \o (IF ~Contains(func_body, <<"r", "e", "t", "u", "r", "n">>)
           /\ ~Contains(func_body, <<"v", "o", "i", "d">>)
        THEN <<"no_return">> ELSE <<>>)

\* _extract_parameters: the text between the first '(' and the next ')', split on commas
_extract_parameters(func_declaration) ==
    LET opens == {i \in 1..Len(func_declaration) :
                     /\ func_declaration[i] = "("
                     /\ \E j \in (i + 1)..Len(func_declaration) : func_declaration[j] = ")"}
    IN  IF opens = {} THEN <<>>
        ELSE LET o == Min(opens)
                 c == Min({j \in (o + 1)..Len(func_declaration) : func_declaration[j] = ")"})
                 params_str == Strip(SubSeq(func_declaration, o + 1, c - 1))
                 parts == SplitOn(params_str, ",")
             IN  IF params_str = <<>> \/ params_str = <<"v", "o", "i", "d">> THEN <<>>
                 ELSE [k \in 1..Len(parts) |-> Strip(parts[k])]

\* match.group(2): the word func_pattern's (\w+) captures, which ends before \s*\(
FuncNameOf(decl) ==
    LET open == Min({i \in 1..Len(decl) : decl[i] = "("})
        last == Max({i \in 1..(open - 1) : IsWordChar(decl[i])})
        first == Min({i \in 1..last : \A j \in i..last : IsWordChar(decl[j])})
    IN  [first |-> first, name |-> SubSeq(decl, first, last)]

\* the dict _extract_functions appends for the match text[func_start:match_end]; func_body is kept
\* as `body`
FunctionRecord(text, func_start, match_end) ==
    LET decl == Slice(text, func_start, match_end)
        func_end == _find_function_end(text, func_start)
        func_body == Slice(text, func_start, func_end)
    IN  [name |-> FuncNameOf(decl).name,
         return_type |-> Strip(SubSeq(decl, 1, FuncNameOf(decl).first - 1)),
         start_line |-> Count(Slice(text, 0, func_start), <<"\n">>) + 1,
         end_line |-> Count(Slice(text, 0, func_end), <<"\n">>) + 1,
         line_count |-> Count(func_body, <<"\n">>),
         parameters |-> _extract_parameters(decl),
         complexity |-> _calculate_function_complexity(func_body),
         has_return |-> Contains(func_body, <<"r", "e", "t", "u", "r", "n">>),
         malloc_count |-> Count(func_body, s_malloc),
         free_count |-> Count(func_body, s_free),
         potential_issues |-> _analyze_function_issues(func_body),
         body |-> func_body]

-----------------------------------------------------------------------------
(* CCodeParserTool: structs, macros, includes, global variables and the    *)
(* file-level numbers.  A group that did not take part in a match (None)   *)
(* is <<>>: such a group is \w+ where it does, never empty.                *)

\* the positions after the literal word, read at a position of P
AfterLiteral(text, P, word) == {b + Len(word) : b \in {x \in P : StartsAt(text, word, x + 1)}}

\* the first offset at or after `from` whose character is not whitespace; Len(text) if none
SkipSpaces(text, from) ==
    Min({q \in from..Len(text) : q = Len(text) \/ ~IsReSpace(text[q + 1])})

\* the offset after the longest run of word characters that begins at offset `from`
WordEnd(text, from) ==
    Max({q \in from..Len(text) : \A i \in (from + 1)..q : IsWordChar(text[i])})

\* the offset of the first character c at or after offset `from` (the pattern has matched, so
\* there is one)
FirstChar(text, from, c) == Min({q \in from..(Len(text) - 1) : text[q + 1] = c})

\* the member pattern of _parse_struct_members (line 241), matched at the start of the line
MemberPatternMatches(line) ==
    AfterRun(line, AfterRun(line, AfterPointers(line, AfterRun(line, {0}, "\\w", 1)), "\\s", 1),
             "\\w", 1) # {}

\* the dict appended for a member line the pattern matches: group 1 is the first word with
\* the pointer markers after it, group 2 the word after them
MemberRecord(line) ==
    LET Ok(c) == IsReSpace(c) \/ c = "*"
        type_word == WordEnd(line, 0)
        name_at == Max({q \in type_word..Len(line) : \A i \in (type_word + 1)..q : Ok(line[i])})
        member_type == Strip(Slice(line, 0, name_at))
    IN  [name |-> Slice(line, name_at, WordEnd(line, name_at)),
         type |-> member_type,
         is_pointer |-> Contains(member_type, <<"*">>),
         is_array |-> Contains(line, <<"[">>) /\ Contains(line, <<"]">>)]

_parse_struct_members(struct_body) ==
    LET parts == SplitOn(struct_body, ";")
        member(k) == IF Strip(parts[k]) # <<>> /\ MemberPatternMatches(Strip(parts[k]))
                     THEN <<MemberRecord(Strip(parts[k]))>>
                     ELSE <<>>
    IN  Concat([k \in 1..Len(parts) |-> member(k)])

\* typedef_pattern (line 93) matched from offset b: the offsets its match can end at
TypedefPatternEnds(text, b) ==
    LET keyword == AfterLiteral(text, AfterRun(text, AfterLiteral(text, {b},
                       <<"t", "y", "p", "e", "d", "e", "f">>), "\\s", 1),
                       <<"s", "t", "r", "u", "c", "t">>)
        spaces == AfterRun(text, keyword, "\\s", 0)
        tag == spaces \cup AfterRun(text, spaces, "\\w", 1)
        open == AfterChar(text, AfterRun(text, tag, "\\s", 0), "{")
        close == AfterChar(text, AfterRun(text, open, "[^}]", 0), "}")
        name == AfterRun(text, AfterRun(text, close, "\\s", 0), "\\w", 1)
    IN  name \cup AfterChar(text, name, ";")

\* struct_pattern (line 109) matched from offset b
StructPatternEnds(text, b) ==
    LET name == AfterRun(text, AfterRun(text, AfterLiteral(text, {b},
                    <<"s", "t", "r", "u", "c", "t">>), "\\s", 1), "\\w", 1)
        open == AfterChar(text, AfterRun(text, name, "\\s", 0), "{")
        close == AfterChar(text, AfterRun(text, open, "[^}]", 0), "}")
    IN  AfterChar(text, close, ";")

\* the dict appended for the typedef match that starts at offset b
TypedefRecord(text, b) ==
    LET keyword_end == SkipSpaces(text, b + 7) + 6
        open == FirstChar(text, b, "{")
        close == FirstChar(text, open, "}")
        struct_body == Slice(text, open + 1, close)
        name_at == SkipSpaces(text, close + 1)
    IN  [name |-> Slice(text, name_at, WordEnd(text, name_at)),
         tag |-> Strip(Slice(text, keyword_end, open)),
         members |-> _parse_struct_members(struct_body),
         line_number |-> Count(Slice(text, 0, b), <<"\n">>) + 1,
         size_estimate |-> Len(SplitOn(struct_body, ";")) - 1]

\* the dict appended for the struct match that starts at offset b
StructRecord(text, b) ==
    LET name_at == SkipSpaces(text, b + 6)
        open == FirstChar(text, b, "{")
        close == FirstChar(text, open, "}")
        struct_body == Slice(text, open + 1, close)
        struct_name == Slice(text, name_at, WordEnd(text, name_at))
    IN  [name |-> struct_name,
         tag |-> struct_name,
         members |-> _parse_struct_members(struct_body),
         line_number |-> Count(Slice(text, 0, b), <<"\n">>) + 1,
         size_estimate |-> Len(SplitOn(struct_body, ";")) - 1]

\* the first loop of _extract_structs, from offset `from` on
RECURSIVE TypedefStructs(_, _)
TypedefStructs(text, from) ==
    LET starts == {b \in from..Len(text) : TypedefPatternEnds(text, b) # {}}
    IN  IF starts = {} THEN <<>>
        ELSE <<TypedefRecord(text, Min(starts))>>
             \o TypedefStructs(text, Max(TypedefPatternEnds(text, Min(starts))))

\* the second loop of _extract_structs, from offset `from` on
RECURSIVE PlainStructs(_, _)
PlainStructs(text, from) ==
    LET starts == {b \in from..Len(text) : StructPatternEnds(text, b) # {}}
    IN  IF starts = {} THEN <<>>
        ELSE <<StructRecord(text, Min(starts))>>
             \o PlainStructs(text, Max(StructPatternEnds(text, Min(starts))))

_extract_structs(text) == TypedefStructs(text, 0) \o PlainStructs(text, 0)

\* macro_pattern (line 130) matched from offset b: the offsets its match can end at
MacroPatternEnds(text, b) ==
    LET name == AfterRun(text, AfterRun(text, AfterLiteral(text, {b},
                    <<"#", "d", "e", "f", "i", "n", "e">>), "\\s", 1), "\\w", 1)
        params == name \cup AfterChar(text, AfterRun(text, AfterChar(text, name, "("),
                                                     "[^)]", 0), ")")
        value == AfterRun(text, AfterRun(text, params, "\\s", 1), ".", 0)
    IN  {q \in value : q = Len(text) \/ text[q + 1] = "\n"}

MacroLongValue == 50

\* the dict appended for the macro match that starts at offset b: (.*) begins after the
\* longest run of whitespace, line breaks included, and ends with its line
MacroRecord(text, b) ==
    LET name_at == SkipSpaces(text, b + 7)
        name_end == WordEnd(text, name_at)
        params_end == IF name_end < Len(text) /\ text[name_end + 1] = "("
                      THEN FirstChar(text, name_end, ")") + 1
                      ELSE name_end
        value_at == SkipSpaces(text, params_end)
        match_end == Max(MacroPatternEnds(text, b))
        macro_value == Strip(Slice(text, value_at, match_end))
    IN  [name |-> Slice(text, name_at, name_end),
         value |-> macro_value,
         line_number |-> Count(Slice(text, 0, b), <<"\n">>) + 1,
         is_function_like |-> Contains(Slice(text, b, match_end), <<"(">>),
         complexity |-> IF Len(macro_value) > MacroLongValue THEN "high" ELSE "low"]

RECURSIVE MacrosFrom(_, _)
MacrosFrom(text, from) ==
    LET starts == {b \in from..Len(text) : MacroPatternEnds(text, b) # {}}
    IN  IF starts = {} THEN <<>>
        ELSE <<MacroRecord(text, Min(starts))>>
             \o MacrosFrom(text, Max(MacroPatternEnds(text, Min(starts))))

_extract_macros(text) == MacrosFrom(text, 0)

\* include_pattern (line 150) matched from offset b: the offset its match ends at, if any.
\* (.*?) is lazy: it ends at the first '>' or '"' of the line
IncludePatternEnds(text, b) ==
    LET open == AfterChar(text, AfterRun(text, AfterLiteral(text, {b},
                    <<"#", "i", "n", "c", "l", "u", "d", "e">>), "\\s", 0), "<")
                \cup AfterChar(text, AfterRun(text, AfterLiteral(text, {b},
                    <<"#", "i", "n", "c", "l", "u", "d", "e">>), "\\s", 0), "\"")
        header == AfterRun(text, open, ".", 0)
        close == AfterChar(text, header, ">") \cup AfterChar(text, header, "\"")
    IN  IF close = {} THEN {} ELSE {Min(close)}

IncludeRecord(text, b) ==
    LET match_end == Max(IncludePatternEnds(text, b))
        open == SkipSpaces(text, b + 8)
        matched == Slice(text, b, match_end)
    IN  [file |-> Slice(text, open + 1, match_end - 1),
         line_number |-> Count(Slice(text, 0, b), <<"\n">>) + 1,
         is_system |-> Count(matched, <<"<">>) > 0,
         is_local |-> Count(matched, <<"\"">>) > 0]

RECURSIVE IncludesFrom(_, _)
IncludesFrom(text, from) ==
    LET starts == {b \in from..Len(text) : IncludePatternEnds(text, b) # {}}
    IN  IF starts = {} THEN <<>>
        ELSE <<IncludeRecord(text, Min(starts))>>
             \o IncludesFrom(text, Max(IncludePatternEnds(text, Min(starts))))

_extract_includes(text) == IncludesFrom(text, 0)

\* (?:w1\s+|w2\s+|...)* for the given words
RECURSIVE AfterKeywords(_, _, _)
AfterKeywords(text, P, words) ==
    LET read == UNION {{b + Len(w) : w \in {v \in words : StartsAt(text, v, b + 1)}} : b \in P}
        more == P \cup AfterRun(text, read, "\\s", 1)
    IN  IF more = P THEN P ELSE AfterKeywords(text, more, words)

\* var_pattern (line 169) under re.match on the stripped line
VarPatternMatches(line) ==
    LET type == AfterPointers(line, AfterRun(line, AfterKeywords(line, {0},
                    { <<"s", "t", "a", "t", "i", "c">>, <<"e", "x", "t", "e", "r", "n">>,
                      <<"c", "o", "n", "s", "t">> }), "\\w", 1))
        name == AfterRun(line, AfterRun(line, type, "\\s", 1), "\\w", 1)
        init == AfterRun(line, AfterRun(line, AfterChar(line, AfterRun(line, name, "\\s", 0),
                                                       "="), "\\s", 0), "[^;]", 1)
    IN  AfterChar(line, name \cup init, ";") # {}

\* the dict appended for line i (1-based) when the pattern matches it: group 2 is the last
\* word before the initialiser or the semicolon, group 1 what is before it
GlobalVarRecord(line, i) ==
    LET stop == Min({q \in 0..(Len(line) - 1) : line[q + 1] \in {"=", ";"}})
        name_end == Max({q \in 0..stop : q = 0 \/ IsWordChar(line[q])})
        name_at == Min({q \in 0..name_end : \A k \in (q + 1)..name_end : IsWordChar(line[k])})
        var_type == Strip(Slice(line, 0, name_at))
    IN  [name |-> Slice(line, name_at, name_end),
         type |-> var_type,
         line_number |-> i,
         is_static |-> Contains(var_type, <<"s", "t", "a", "t", "i", "c">>),
         is_const |-> Contains(var_type, <<"c", "o", "n", "s", "t">>),
         is_pointer |-> Contains(var_type, <<"*">>)]

\* the loop of _extract_global_vars from line i on; in_function is never set
RECURSIVE GlobalVarsFrom(_, _, _)
GlobalVarsFrom(lines, i, brace_count) ==
    IF i > Len(lines) THEN <<>>
    ELSE LET line == Strip(lines[i])
             depth == brace_count + Count(line, <<"{">>) - Count(line, <<"}">>)
         IN  (IF depth = 0 /\ VarPatternMatches(line) /\ ~StartsAt(line, <<"#">>, 1)
              THEN <<GlobalVarRecord(line, i)>>
              ELSE <<>>)
             \o GlobalVarsFrom(lines, i + 1, depth)

_extract_global_vars(text) == GlobalVarsFrom(SplitLines(text), 1, 0)

\* _extract_functions as a function of the text
RECURSIVE FunctionsFrom(_, _)
FunctionsFrom(text, from) ==
    LET match == NextFuncMatch(text, from)
    IN  IF match = <<>> THEN <<>>
        ELSE <<FunctionRecord(text, match[1], match[2])>> \o FunctionsFrom(text, match[2])

_extract_functions(text) == FunctionsFrom(text, 0)

RECURSIVE SumSeq(_)
SumSeq(values) == IF values = <<>> THEN 0 ELSE Head(values) + SumSeq(Tail(values))

ComplexFunctionMin == 10

\* line 287: the cyclomatic values of the function records
CyclomaticOf(found) == [k \in 1..Len(found) |-> found[k].complexity.cyclomatic_complexity]

\* sum(values) / len(values) as the exact fraction, max(values): what they raise for an empty
\* list is recorded under the key raised
MeanOrRaise(values) ==
    IF values = <<>> THEN [raised |-> "ZeroDivisionError"]
    ELSE [num |-> SumSeq(values), den |-> Len(values)]

MaxOrRaise(values) ==
    IF values = <<>> THEN [raised |-> "ValueError"] ELSE Max({values[k] : k \in 1..Len(values)})

\* the one element of a singleton
Only(set) == CHOOSE x \in set : TRUE

\* lines 284-294 without the guards against an empty list
FileComplexity_unguarded(found) ==
    LET complexities == CyclomaticOf(found)
    IN  IF complexities = <<>> THEN MeanOrRaise(complexities)
        ELSE [total_functions |-> Len(found),
              average_complexity |-> MeanOrRaise(complexities),
              max_complexity |-> MaxOrRaise(complexities),
              complex_functions |->
                  Cardinality({k \in 1..Len(found) : complexities[k] > ComplexFunctionMin})]

\* lines 284-294: for no function a dict of three keys, otherwise one of four
FileComplexity(found) ==
    LET complexities == CyclomaticOf(found)
    IN  IF found = <<>>
        THEN [average_complexity |-> [num |-> 0, den |-> 1], max_complexity |-> 0,
              total_functions |-> 0]
        ELSE [total_functions |-> Len(found),
              average_complexity |-> IF complexities # <<>> THEN MeanOrRaise(complexities)
                                     ELSE [num |-> 0, den |-> 1],
              max_complexity |-> IF complexities # <<>> THEN MaxOrRaise(complexities) ELSE 0,
              complex_functions |->
                  Cardinality({k \in 1..Len(found) : complexities[k] > ComplexFunctionMin})]

\* the aggregate of the functions extracted once more (line 282), unguarded
_calculate_file_complexity_unguarded(text) ==
    Only({FileComplexity_unguarded(found) : found \in {_extract_functions(text)}})

\* what _calculate_file_complexity returns for the functions extracted once more (line 282)
_calculate_file_complexity(text) ==
    Only({FileComplexity(found) : found \in {_extract_functions(text)}})

\* the f-string of the count finding, the same in _check_memory_patterns and _detect_c_issues
CountMismatchMessage(mallocs, frees) ==
    <<"m", "a", "l", "l", "o", "c", "/", "c", "a", "l", "l", "o", "c", "(">>
    \o IntToStr(mallocs)
    \o <<")", "U+3068", "f", "r", "e", "e", "(">>
    \o IntToStr(frees)
    \o <<")", "U+306E", "U+6570", "U+304C", "U+4E0D", "U+4E00", "U+81F4">>

\* the dict dangerous_funcs of _detect_c_issues, in insertion order
dangerous_funcs ==
    <<
      [func |-> <<"s", "t", "r", "c", "p", "y">>,
       suggestion |-> <<"s", "t", "r", "n", "c", "p", "y", "U+7B49", "U+306E", "U+5B89",
                       "U+5168", "U+306A", "U+95A2", "U+6570", "U+3092", "U+4F7F", "U+7528",
                       "U+3057", "U+3066", "U+304F", "U+3060", "U+3055", "U+3044">>],
      [func |-> <<"s", "t", "r", "c", "a", "t">>,
       suggestion |-> <<"s", "t", "r", "n", "c", "a", "t", "U+7B49", "U+306E", "U+5B89",
                       "U+5168", "U+306A", "U+95A2", "U+6570", "U+3092", "U+4F7F", "U+7528",
                       "U+3057", "U+3066", "U+304F", "U+3060", "U+3055", "U+3044">>],
      [func |-> <<"s", "p", "r", "i", "n", "t", "f">>,
       suggestion |-> <<"s", "n", "p", "r", "i", "n", "t", "f", "U+7B49", "U+306E", "U+5B89",
                       "U+5168", "U+306A", "U+95A2", "U+6570", "U+3092", "U+4F7F", "U+7528",
                       "U+3057", "U+3066", "U+304F", "U+3060", "U+3055", "U+3044">>],
      [func |-> <<"g", "e", "t", "s">>,
       suggestion |-> <<"f", "g", "e", "t", "s", "U+7B49", "U+306E", "U+5B89", "U+5168",
                       "U+306A", "U+95A2", "U+6570", "U+3092", "U+4F7F", "U+7528", "U+3057",
                       "U+3066", "U+304F", "U+3060", "U+3055", "U+3044">>],
      [func |-> <<"s", "c", "a", "n", "f">>,
       suggestion |-> <<"U+3088", "U+308A", "U+5B89", "U+5168", "U+306A", "U+5165", "U+529B",
                       "U+65B9", "U+6CD5", "U+3092", "U+691C", "U+8A0E", "U+3057", "U+3066",
                       "U+304F", "U+3060", "U+3055", "U+3044">>]
    >>

\* an entry of _detect_c_issues; the key function is absent (<<>>) from the last two kinds
CIssue(type, severity, function, description, suggestion) ==
    [type |-> type, severity |-> severity, function |-> function,
     description |-> description, suggestion |-> suggestion]

_detect_c_issues(text) ==
    LET malloc_count == Count(text, s_malloc) + Count(text, s_calloc)
        free_count == Count(text, s_free)
        danger(k) ==
            IF Contains(text, dangerous_funcs[k].func)
            THEN <<CIssue("security", "high", dangerous_funcs[k].func,
                          <<"U+5371", "U+967A", "U+306A", "U+95A2", "U+6570", " ">>
                          \o dangerous_funcs[k].func
                          \o <<" ", "U+306E", "U+4F7F", "U+7528", "U+3092", "U+691C", "U+51FA">>,
                          dangerous_funcs[k].suggestion)>>
            ELSE <<>>
    IN  Concat([k \in 1..Len(dangerous_funcs) |-> danger(k)])
        \o (IF malloc_count > free_count
            THEN <<CIssue("memory_leak", "medium", <<>>,
                          CountMismatchMessage(malloc_count, free_count),
                          <<"U+5168", "U+3066", "U+306E", "m", "a", "l", "l", "o", "c", "/",
                            "c", "a", "l", "l", "o", "c", "U+306B", "U+5BFE", "U+5FDC",
                            "U+3059", "U+308B", "f", "r", "e", "e", "U+3092", "U+78BA",
                            "U+8A8D", "U+3057", "U+3066", "U+304F", "U+3060", "U+3055",
                            "U+3044">>)>>
            ELSE <<>>)
        \o (IF Contains(text, s_malloc) /\ Count(text, <<"i", "f">>) < Count(text, s_malloc)
            THEN <<CIssue("null_pointer", "medium", <<>>,
                          <<"m", "a", "l", "l", "o", "c", "U+5F8C", "U+306E", "N", "U", "L",
                            "L", "U+30C1", "U+30A7", "U+30C3", "U+30AF", "U+304C", "U+4E0D",
                            "U+8DB3", "U+3057", "U+3066", "U+3044", "U+308B", "U+53EF",
                            "U+80FD", "U+6027">>,
                          <<"m", "a", "l", "l", "o", "c", "U+8FD4", "U+308A", "U+5024",
                            "U+306E", "N", "U", "L", "L", "U+30C1", "U+30A7", "U+30C3",
                            "U+30AF", "U+3092", "U+8FFD", "U+52A0", "U+3057", "U+3066",
                            "U+304F", "U+3060", "U+3055", "U+3044">>)>>
            ELSE <<>>)

-----------------------------------------------------------------------------
(* _extract_functions as a state machine: one step per match of            *)
(* re.finditer, the records appended in match order.                       *)

MaxChunks == 3

\* pieces of C source text: headers the pattern matches (one with '}' in its parameter list),
\* closing text, lone braces, a line break
SourceChunks ==
    <<
      <<"i", "n", "t", " ", "f", "(", ")", " ", "{">>,
      <<"v", "o", "i", "d", " ", "h", "(", "}", ")", " ", "{">>,
      <<" ", "r", "e", "t", "u", "r", "n", " ", "0", ";", " ", "}">>,
      <<"}">>,
      <<"{">>,
      <<"\n">>
    >>

\* every text of at most MaxChunks pieces
Sources ==
    UNION {{Concat([k \in 1..n |-> SourceChunks[f[k]]]) : f \in [1..n -> 1..Len(SourceChunks)]} :
           n \in 0..MaxChunks}

\* whole files: a function of three nested loops; a function of many decisions next to a plain
\* one; an include, a macro, a struct, a global variable and a function; a macro whose value is
\* in parentheses, a macro with a parameter and a function whose last line holds a declaration
SourceSamples ==
    {
      <<"v", "o", "i", "d", " ", "f", "(", ")", " ", "{", "\n", "f", "o", "r", "(", ";", ";",
        ")", " ", "{", "\n", "w", "h", "i", "l", "e", "(", "1", ")", " ", "{", "\n", "f", "o",
        "r", "(", ";", ";", ")", " ", "{", "\n", "}", "\n", "}", "\n", "}", "\n", "}">>,
      <<"i", "n", "t", " ", "k", "(", ")", " ", "{", "i", "f", "(", "a", "&", "&", "b", "|",
        "|", "c", "&", "&", "d", "|", "|", "e", "&", "&", "f", "|", "|", "g", "&", "&", "h",
        "|", "|", "i", "&", "&", "j", "|", "|", "k", ")", "x", ";", "}", "\n", "i", "n", "t",
        " ", "m", "(", ")", " ", "{", "}">>,
      <<"#", "i", "n", "c", "l", "u", "d", "e", " ", "<", "a", ".", "h", ">", "\n", "#", "d",
        "e", "f", "i", "n", "e", " ", "N", " ", "1", "\n", "s", "t", "r", "u", "c", "t", " ",
        "s", " ", "{", "i", "n", "t", " ", "a", ";", "}", ";", "\n", "i", "n", "t", " ", "g",
        ";", "\n", "i", "n", "t", " ", "f", "(", ")", " ", "{", " ", "r", "e", "t", "u", "r",
        "n", " ", "g", ";", " ", "}">>,
      <<"#", "d", "e", "f", "i", "n", "e", " ", "X", " ", "(", "1", ")", "\n", "#", "d", "e",
        "f", "i", "n", "e", " ", "F", "(", "a", ")", " ", "a", "\n", "v", "o", "i", "d", " ",
        "f", "(", ")", " ", "{", "\n", "i", "n", "t", " ", "x", " ", "=", " ", "1", ";", " ",
        "}">>
    }

\* lines 55-60: functions = [], the iterator stands at the beginning of content
InitParser ==
    /\ OthersOff("parser")
    /\ content \in Sources \cup SourceSamples
    /\ ppc = "open"
    /\ scan_from = 0
    /\ functions = <<>>
    /\ analysis = <<>>
    /\ run_error = ""

\* the dict with one more key
WithKey(dict, key, value) == dict @@ (key :> value)

\* whether a call ended in an exception rather than a value
Raised(value) == "raised" \in DOMAIN value

\* lines 28-29: the path does not exist
run_file_not_found ==
    /\ ppc = "open"
    /\ ppc' = "done"
    /\ run_error' = "File not found"
    /\ UNCHANGED <<content, scan_from, functions, analysis>>
    /\ UNCHANGED outside_parser_vars

\* lines 31-32 and 49-51: open() or read() raises and the handler returns the error dict
run_read_failed ==
    /\ ppc = "open"
    /\ ppc' = "done"
    /\ run_error' \in {"OSError", "UnicodeDecodeError"}
    /\ UNCHANGED <<content, scan_from, functions, analysis>>
    /\ UNCHANGED outside_parser_vars

\* lines 31-32 and 36: content is read and _extract_functions is entered
run_read ==
    /\ ppc = "open"
    /\ ppc' = "matches"
    /\ UNCHANGED <<content, scan_from, functions, analysis, run_error>>
    /\ UNCHANGED outside_parser_vars

\* lines 62-84: one iteration of the loop over the matches
extract_functions_match ==
    /\ ppc = "matches"
    /\ NextFuncMatch(content, scan_from) # <<>>
    /\ LET match == NextFuncMatch(content, scan_from)
       IN  /\ functions' = Append(functions, FunctionRecord(content, match[1], match[2]))
           /\ scan_from' = match[2]
    /\ UNCHANGED <<content, ppc, analysis, run_error>>
    /\ UNCHANGED outside_parser_vars

\* lines 86 and 36: the iterator is exhausted; the list becomes the value of "functions"
extract_functions_return ==
    /\ ppc = "matches"
    /\ NextFuncMatch(content, scan_from) = <<>>
    /\ ppc' = "structs"
    /\ analysis' = WithKey(analysis, "functions", functions)
    /\ UNCHANGED <<content, scan_from, functions, run_error>>
    /\ UNCHANGED outside_parser_vars

\* line 37
run_structs ==
    /\ ppc = "structs"
    /\ ppc' = "macros"
    /\ analysis' = WithKey(analysis, "structs", _extract_structs(content))
    /\ UNCHANGED <<content, scan_from, functions, run_error>>
    /\ UNCHANGED outside_parser_vars

\* line 38
run_macros ==
    /\ ppc = "macros"
    /\ ppc' = "includes"
    /\ analysis' = WithKey(analysis, "macros", _extract_macros(content))
    /\ UNCHANGED <<content, scan_from, functions, run_error>>
    /\ UNCHANGED outside_parser_vars

\* line 39
run_includes ==
    /\ ppc = "includes"
    /\ ppc' = "global_variables"
    /\ analysis' = WithKey(analysis, "includes", _extract_includes(content))
    /\ UNCHANGED <<content, scan_from, functions, run_error>>
    /\ UNCHANGED outside_parser_vars

\* line 40
run_global_variables ==
    /\ ppc = "global_variables"
    /\ ppc' = "complexity_metrics"
    /\ analysis' = WithKey(analysis, "global_variables", _extract_global_vars(content))
    /\ UNCHANGED <<content, scan_from, functions, run_error>>
    /\ UNCHANGED outside_parser_vars

\* line 41, and lines 49-51 if the call raises: the dict is dropped for the error dict
run_complexity_metrics ==
    /\ ppc = "complexity_metrics"
    /\ LET value == _calculate_file_complexity(content)
       IN  IF Raised(value)
           THEN /\ ppc' = "done"
                /\ analysis' = <<>>
                /\ run_error' = value.raised
           ELSE /\ ppc' = "potential_issues"
                /\ analysis' = WithKey(analysis, "complexity_metrics", value)
                /\ UNCHANGED run_error
    /\ UNCHANGED <<content, scan_from, functions>>
    /\ UNCHANGED outside_parser_vars

\* lines 42-47: the last three keys, and the dict is returned
run_potential_issues ==
    /\ ppc = "potential_issues"
    /\ ppc' = "done"
    /\ analysis' = WithKey(WithKey(WithKey(analysis,
                        "potential_issues", _detect_c_issues(content)),
                        "line_count", Len(SplitLines(content))),
                        "function_count", Count(content, <<"(">>))
    /\ UNCHANGED <<content, scan_from, functions, run_error>>
    /\ UNCHANGED outside_parser_vars

NextParser ==
    \/ run_file_not_found
    \/ run_read_failed
    \/ run_read
    \/ extract_functions_match
    \/ extract_functions_return
    \/ run_structs
    \/ run_macros
    \/ run_includes
    \/ run_global_variables
    \/ run_complexity_metrics
    \/ run_potential_issues

SpecParser == InitParser /\ [][NextParser]_vars

-----------------------------------------------------------------------------
(* CStaticAnalysisTool: the four passes of _run_custom_analysis.  An issue *)
(* is a record with the same fields in every pass; a key the code leaves   *)
(* out is line |-> 0, suggestion or code_snippet |-> <<>>.                 *)

Issue(category, severity, line, message, suggestion, code_snippet) ==
    [tool |-> "custom", category |-> category, severity |-> severity, line |-> line,
     message |-> message, suggestion |-> suggestion, code_snippet |-> code_snippet]

\* the dict dangerous_functions of _check_security_patterns, in insertion order
security_catalog ==
    <<      [func |-> <<"s", "t", "r", "c", "p", "y">>, severity |-> "high",
       message |-> <<"s", "t", "r", "c", "p", "y", "(", ")", "U+306E", "U+4F7F", "U+7528",
                    "U+306F", "U+30D0", "U+30C3", "U+30D5", "U+30A1", "U+30AA", "U+30FC",
                    "U+30D0", "U+30FC", "U+30D5", "U+30ED", "U+30FC", "U+306E", "U+539F",
                    "U+56E0", "U+3068", "U+306A", "U+308A", "U+307E", "U+3059">>,
       suggestion |-> <<"s", "t", "r", "n", "c", "p", "y", "(", ")", "U+307E", "U+305F",
                       "U+306F", "s", "t", "r", "l", "c", "p", "y", "(", ")", "U+3092",
                       "U+4F7F", "U+7528", "U+3057", "U+3066", "U+304F", "U+3060", "U+3055",
                       "U+3044">>],
      [func |-> <<"s", "t", "r", "c", "a", "t">>, severity |-> "high",
       message |-> <<"s", "t", "r", "c", "a", "t", "(", ")", "U+306E", "U+4F7F", "U+7528",
                    "U+306F", "U+30D0", "U+30C3", "U+30D5", "U+30A1", "U+30AA", "U+30FC",
                    "U+30D0", "U+30FC", "U+30D5", "U+30ED", "U+30FC", "U+306E", "U+539F",
                    "U+56E0", "U+3068", "U+306A", "U+308A", "U+307E", "U+3059">>,
       suggestion |-> <<"s", "t", "r", "n", "c", "a", "t", "(", ")", "U+307E", "U+305F",
                       "U+306F", "s", "t", "r", "l", "c", "a", "t", "(", ")", "U+3092",
                       "U+4F7F", "U+7528", "U+3057", "U+3066", "U+304F", "U+3060", "U+3055",
                       "U+3044">>],
      [func |-> <<"s", "p", "r", "i", "n", "t", "f">>, severity |-> "high",
       message |-> <<"s", "p", "r", "i", "n", "t", "f", "(", ")", "U+306E", "U+4F7F", "U+7528",
                    "U+306F", "U+30D0", "U+30C3", "U+30D5", "U+30A1", "U+30AA", "U+30FC",
                    "U+30D0", "U+30FC", "U+30D5", "U+30ED", "U+30FC", "U+306E", "U+539F",
                    "U+56E0", "U+3068", "U+306A", "U+308A", "U+307E", "U+3059">>,
       suggestion |-> <<"s", "n", "p", "r", "i", "n", "t", "f", "(", ")", "U+3092", "U+4F7F",
                       "U+7528", "U+3057", "U+3066", "U+304F", "U+3060", "U+3055", "U+3044">>],
      [func |-> <<"g", "e", "t", "s">>, severity |-> "critical",
       message |-> <<"g", "e", "t", "s", "(", ")", "U+306F", "U+975E", "U+5E38", "U+306B",
                    "U+5371", "U+967A", "U+306A", "U+95A2", "U+6570", "U+3067", "U+3059">>,
       suggestion |-> <<"f", "g", "e", "t", "s", "(", ")", "U+3092", "U+4F7F", "U+7528",
                       "U+3057", "U+3066", "U+304F", "U+3060", "U+3055", "U+3044">>]
    >>

\* the issues the inner loop appends for line i (1-based) from catalog entry k on
RECURSIVE SecurityLineIssues(_, _, _)
SecurityLineIssues(line, i, k) ==
    IF k > Len(security_catalog) THEN <<>>
    ELSE LET info == security_catalog[k]
         IN  (IF Contains(line, info.func \o <<"(">>)
              THEN <<Issue("security", info.severity, i, info.message, info.suggestion,
                           Strip(line))>>
              ELSE <<>>)
             \o SecurityLineIssues(line, i, k + 1)

\* the security pass with its two loops exchanged: catalog entries outside, lines inside
_check_security_patterns_by_function(text) ==
    LET lines == SplitLines(text)
        hits(k) == Concat([i \in 1..Len(lines) |->
                             IF Contains(lines[i], security_catalog[k].func \o <<"(">>)
                             THEN <<Issue("security", security_catalog[k].severity, i,
                                          security_catalog[k].message,
                                          security_catalog[k].suggestion, Strip(lines[i]))>>
                             ELSE <<>>])
    IN  Concat([k \in 1..Len(security_catalog) |-> hits(k)])

_check_security_patterns(text) ==
    LET lines == SplitLines(text)
    IN  Concat([i \in 1..Len(lines) |-> SecurityLineIssues(lines[i], i, 1)])

\* 'malloc(' in line or 'calloc(' in line
HasAllocCall(line) == Contains(line, s_malloc_call) \/ Contains(line, s_calloc_call)

\* the window of the null check one line longer
AnalyzerNullCheckFound_five_lines(lines, i) ==
    \E j \in (i + 1)..Min({i + 5, Len(lines)}) :
        Contains(lines[j], s_NULL) \/ Contains(lines[j], s_null)

\* lines 228-232: a line among the next four (bounded by the end of the text) holds NULL or null
AnalyzerNullCheckFound(lines, i) ==
    \E j \in (i + 1)..Min({i + 4, Len(lines)}) :
        Contains(lines[j], s_NULL) \/ Contains(lines[j], s_null)

_check_memory_patterns(text) ==
    LET lines == SplitLines(text)
        malloc_lines == {i \in 1..Len(lines) : HasAllocCall(lines[i])}
        free_lines == {i \in 1..Len(lines) : Contains(lines[i], s_free \o <<"(">>)}
        unchecked(i) ==
            IF HasAllocCall(lines[i]) /\ Contains(lines[i], <<"=">>)
               /\ ~AnalyzerNullCheckFound(lines, i)
            THEN <<Issue("memory", "medium", i,
                         <<"m", "a", "l", "l", "o", "c", "/", "c", "a", "l", "l", "o", "c",
                           "U+5F8C", "U+306E", "N", "U", "L", "L", "U+30C1", "U+30A7", "U+30C3",
                           "U+30AF", "U+304C", "U+3042", "U+308A", "U+307E", "U+305B",
                           "U+3093">>,
                         <<"U+30E1", "U+30E2", "U+30EA", "U+5272", "U+308A", "U+5F53", "U+3066",
                           "U+5931", "U+6557", "U+6642", "U+306E", "U+51E6", "U+7406", "U+3092",
                           "U+8FFD", "U+52A0", "U+3057", "U+3066", "U+304F", "U+3060", "U+3055",
                           "U+3044">>,
                         Strip(lines[i]))>>
            ELSE <<>>
    IN  (IF Cardinality(malloc_lines) > Cardinality(free_lines)
         THEN <<Issue("memory", "medium", 0,
                      CountMismatchMessage(Cardinality(malloc_lines), Cardinality(free_lines)),
                      <<"U+30E1", "U+30E2", "U+30EA", "U+30EA", "U+30FC", "U+30AF", "U+306E",
                        "U+53EF", "U+80FD", "U+6027", "U+304C", "U+3042", "U+308A", "U+307E",
                        "U+3059", "U+3002", "U+5168", "U+3066", "U+306E", "m", "a", "l", "l",
                        "o", "c", "U+306B", "U+5BFE", "U+5FDC", "U+3059", "U+308B", "f", "r",
                        "e", "e", "U+3092", "U+78BA", "U+8A8D", "U+3057", "U+3066", "U+304F",
                        "U+3060", "U+3055", "U+3044">>,
                      <<>>)>>
         ELSE <<>>)
        \o Concat([i \in 1..Len(lines) |-> unchecked(i)])

\* any(keyword in line_clean for keyword in ['for(', 'while(', 'do{'])
HasLoopKeyword(line_clean) ==
    \/ Contains(line_clean, <<"f", "o", "r", "(">>)
    \/ Contains(line_clean, <<"w", "h", "i", "l", "e", "(">>)
    \/ Contains(line_clean, <<"d", "o", "{">>)

\* lines 257-266 with the test `and in_loop` of line 263 left out
PerformanceStep_any_closing_brace(line, was_in_loop, depth_before) ==
    LET line_clean == Strip(line)
    IN  IF HasLoopKeyword(line_clean) THEN <<TRUE, depth_before + 1>>
        ELSE IF Contains(line_clean, <<"}">>)
             THEN <<IF depth_before - 1 = 0 THEN FALSE ELSE was_in_loop, depth_before - 1>>
        ELSE <<was_in_loop, depth_before>>

\* lines 257-266: <<in_loop, loop_depth>> after the line, from their values before it
PerformanceStep(line, was_in_loop, depth_before) ==
    LET line_clean == Strip(line)
    IN  IF HasLoopKeyword(line_clean) THEN <<TRUE, depth_before + 1>>
        ELSE IF Contains(line_clean, <<"}">>) /\ was_in_loop
             THEN <<IF depth_before - 1 = 0 THEN FALSE ELSE was_in_loop, depth_before - 1>>
        ELSE <<was_in_loop, depth_before>>

\* lines 270-278: the issue appended for line i
PerformanceIssue(line, i) ==
    Issue("performance", "medium", i,
          <<"U+30EB", "U+30FC", "U+30D7", "U+5185", "U+3067", "U+30E1", "U+30E2", "U+30EA",
            "U+5272", "U+308A", "U+5F53", "U+3066", "U+3092", "U+5B9F", "U+884C", "U+3057",
            "U+3066", "U+3044", "U+307E", "U+3059">>,
          <<"U+53EF", "U+80FD", "U+3067", "U+3042", "U+308C", "U+3070", "U+30EB", "U+30FC",
            "U+30D7", "U+5916", "U+3067", "U+30E1", "U+30E2", "U+30EA", "U+3092", "U+4E8B",
            "U+524D", "U+5272", "U+308A", "U+5F53", "U+3066", "U+3057", "U+3066", "U+304F",
            "U+3060", "U+3055", "U+3044">>,
          Strip(line))

\* the loop of _check_performance_patterns from line i on, with its two flags
RECURSIVE PerformanceScan(_, _, _, _)
PerformanceScan(lines, i, was_in_loop, depth_before) ==
    IF i > Len(lines) THEN <<>>
    ELSE LET after == PerformanceStep(lines[i], was_in_loop, depth_before)
         IN  (IF after[1] /\ HasAllocCall(lines[i]) THEN <<PerformanceIssue(lines[i], i)>>
              ELSE <<>>)
             \o PerformanceScan(lines, i + 1, after[1], after[2])

_check_performance_patterns(text) == PerformanceScan(SplitLines(text), 1, FALSE, 0)

IsDigit(c) == c \in {"0", "1", "2", "3", "4", "5", "6", "7", "8", "9"}

\* int(num) for a string of decimal digits
RECURSIVE StrToInt(_)
StrToInt(num) ==
    IF num = <<>> THEN 0
    ELSE StrToInt(SubSeq(num, 1, Len(num) - 1)) * 10
         + (CHOOSE d \in 0..9 : IntToStr(d) = <<num[Len(num)]>>)

\* re.findall(r'\b\d+\b', line): the runs of digits with no word character on either side
FindNumbers(line) ==
    LET edge(p) == p = 0 \/ p = Len(line) + 1 \/ ~IsWordChar(line[p])
        runs == {r \in (1..Len(line)) \X (1..Len(line)) :
                    /\ r[1] <= r[2]
                    /\ \A p \in r[1]..r[2] : IsDigit(line[p])
                    /\ edge(r[1] - 1)
                    /\ edge(r[2] + 1)}
    IN  {SubSeq(line, r[1], r[2]) : r \in runs}

StyleMaxLine == 120

MagicNumberMin == 10

\* the two checks of _check_style_patterns on line i
StyleLineIssues(line, i) ==
    (IF Len(line) > StyleMaxLine
     THEN <<Issue("style", "low", i,
                  <<"U+884C", "U+304C", "U+9577", "U+3059", "U+304E", "U+307E", "U+3059",
                    "U+FF08", "1", "2", "0", "U+6587", "U+5B57", "U+8D85", "U+FF09">>,
                  <<"U+884C", "U+3092", "U+5206", "U+5272", "U+3057", "U+3066", "U+53EF",
                    "U+8AAD", "U+6027", "U+3092", "U+5411", "U+4E0A", "U+3055", "U+305B",
                    "U+3066", "U+304F", "U+3060", "U+3055", "U+3044">>,
                  <<>>)>>
     ELSE <<>>)
    \o (IF /\ \E p \in 1..Len(line) : IsDigit(line[p])
           /\ ~StartsAt(Strip(line), <<"/", "/">>, 1)
           /\ \E num \in FindNumbers(line) : StrToInt(num) > MagicNumberMin
        THEN <<Issue("style", "low", i,
                     <<"U+30DE", "U+30B8", "U+30C3", "U+30AF", "U+30CA", "U+30F3", "U+30D0",
                       "U+30FC", "U+306E", "U+53EF", "U+80FD", "U+6027", "U+304C", "U+3042",
                       "U+308A", "U+307E", "U+3059">>,
                     <<"U+5B9A", "U+6570", "U+307E", "U+305F", "U+306F", "#", "d", "e", "f",
                       "i", "n", "e", "U+3092", "U+4F7F", "U+7528", "U+3057", "U+3066",
                       "U+304F", "U+3060", "U+3055", "U+3044">>,
                     Strip(line))>>
        ELSE <<>>)

_check_style_patterns(text) ==
    LET lines == SplitLines(text)
    IN  Concat([i \in 1..Len(lines) |-> StyleLineIssues(lines[i], i)])

\* the entry the except branch appends; str(e) is not modelled
AnalysisFailed ==
    [tool |-> "custom", category |-> "none", severity |-> "error", line |-> 0,
     message |-> <<"C", "u", "s", "t", "o", "m", " ", "a", "n", "a", "l", "y", "s", "i", "s",
                   " ", "f", "a", "i", "l", "e", "d", ":", " ">>,
     suggestion |-> <<>>, code_snippet |-> <<>>]

MaxFileLines == 3

\* lines of a C file: allocations with and without an assignment, a free, a null check, calls
\* of catalog functions and of fgets, a loop, a number
FileLineChoices ==
    <<
        <<"p", " ", "=", " ", "m", "a", "l", "l", "o", "c", "(", "n", ")", ";">>,
        <<"m", "a", "l", "l", "o", "c", "(", "1", ")", ";", " ", "c", "a", "l", "l", "o", "c",
          "(", "2", ",", " ", "2", ")", ";">>,
        <<"f", "r", "e", "e", "(", "p", ")", ";">>,
        <<"i", "f", " ", "(", "p", " ", "=", "=", " ", "N", "U", "L", "L", ")", " ", "r", "e",
          "t", "u", "r", "n", ";">>,
        <<"s", "t", "r", "c", "p", "y", "(", "a", ",", " ", "b", ")", ";">>,
        <<"f", "g", "e", "t", "s", "(", "s", ",", " ", "9", ",", " ", "f", ")", ";">>,
        <<"g", "e", "t", "s", "(", "s", ")", ";", " ", "s", "t", "r", "c", "a", "t", "(", "a",
          ",", " ", "b", ")", ";">>,
        <<"w", "h", "i", "l", "e", "(", "1", ")", " ", "{">>,
        <<"}">>,
        <<"i", "n", "t", " ", "a", "[", "6", "4", "]", ";">>
    >>

\* a line of StyleMaxLine + 1 characters
LongLine == [k \in 1..(StyleMaxLine + 1) |-> "x"]

\* an allocation with a null check on its own line; the opening line of an if-block
AllocWithNullLine == <<"p", " ", "=", " ", "c", "a", "l", "l", "o", "c", "(", "1", ",", " ",
                       "n", ")", ";", " ", "i", "f", " ", "(", "p", " ", "=", "=", " ", "N",
                       "U", "L", "L", ")", " ", "r", "e", "t", "u", "r", "n", ";">>
IfBlockLine == <<"i", "f", " ", "(", "x", ")", " ", "{">>

\* longer files: one that every pass reports on; an allocation whose null check is on the
\* fifth, and on the fourth, following line; an allocation with the check on its own line; a
\* loop body with an allocation after an if-block, and one after the loop; two nested loops
\* with an allocation after the inner one
FileSamples ==
    { JoinLines(<<FileLineChoices[7], FileLineChoices[8], FileLineChoices[1],
                  FileLineChoices[5], LongLine, FileLineChoices[10]>>),
      JoinLines(<<FileLineChoices[1], FileLineChoices[9], FileLineChoices[9],
                  FileLineChoices[9], FileLineChoices[9], FileLineChoices[4]>>),
      JoinLines(<<FileLineChoices[1], FileLineChoices[9], FileLineChoices[9],
                  FileLineChoices[9], FileLineChoices[4]>>),
      AllocWithNullLine,
      JoinLines(<<FileLineChoices[8], IfBlockLine, FileLineChoices[9], FileLineChoices[1],
                  FileLineChoices[9], FileLineChoices[1]>>),
      JoinLines(<<FileLineChoices[8], FileLineChoices[8], FileLineChoices[9],
                  FileLineChoices[1], FileLineChoices[9]>>) }

\* every text of at most MaxFileLines lines, and the longer files
FileContents ==
    UNION {{JoinLines([k \in 1..n |-> FileLineChoices[f[k]]]) :
               f \in [1..n -> 1..Len(FileLineChoices)]} : n \in 0..MaxFileLines}
    \cup FileSamples

\* line 134: issues = []
InitAnalyzer ==
    /\ OthersOff("analyzer")
    /\ file_content \in FileContents
    /\ readable \in BOOLEAN
    /\ apc = "open"
    /\ issues = <<>>

\* lines 137-138: the file is read
custom_analysis_read ==
    /\ apc = "open"
    /\ readable
    /\ apc' = "security"
    /\ UNCHANGED <<file_content, readable, issues>>
    /\ UNCHANGED outside_analyzer_vars

\* lines 146-151: open or read raised
custom_analysis_failed ==
    /\ apc = "open"
    /\ ~readable
    /\ issues' = Append(issues, AnalysisFailed)
    /\ apc' = "done"
    /\ UNCHANGED <<file_content, readable>>
    /\ UNCHANGED outside_analyzer_vars

\* line 141
custom_analysis_security ==
    /\ apc = "security"
    /\ issues' = issues \o _check_security_patterns(file_content)
    /\ apc' = "memory"
    /\ UNCHANGED <<file_content, readable>>
    /\ UNCHANGED outside_analyzer_vars

\* line 142
custom_analysis_memory ==
    /\ apc = "memory"
    /\ issues' = issues \o _check_memory_patterns(file_content)
    /\ apc' = "performance"
    /\ UNCHANGED <<file_content, readable>>
    /\ UNCHANGED outside_analyzer_vars

\* line 143
custom_analysis_performance ==
    /\ apc = "performance"
    /\ issues' = issues \o _check_performance_patterns(file_content)
    /\ apc' = "style"
    /\ UNCHANGED <<file_content, readable>>
    /\ UNCHANGED outside_analyzer_vars

\* lines 144 and 153
custom_analysis_style ==
    /\ apc = "style"
    /\ issues' = issues \o _check_style_patterns(file_content)
    /\ apc' = "done"
    /\ UNCHANGED <<file_content, readable>>
    /\ UNCHANGED outside_analyzer_vars

NextAnalyzer ==
    \/ custom_analysis_read
    \/ custom_analysis_failed
    \/ custom_analysis_security
    \/ custom_analysis_memory
    \/ custom_analysis_performance
    \/ custom_analysis_style

SpecAnalyzer == InitAnalyzer /\ [][NextAnalyzer]_vars

-----------------------------------------------------------------------------
(* _check_performance_patterns, one line of the file at a time             *)

\* lines 249-254: issues = [], the text is split, in_loop = False, loop_depth = 0
InitPerformance ==
    /\ OthersOff("performance")
    /\ scan_lines \in {SplitLines(text) : text \in FileContents}
    /\ scan_pc = "loop"
    /\ scan_i = 0
    /\ in_loop = FALSE
    /\ loop_depth = 0
    /\ scan_issues = <<>>

\* lines 256-278: one iteration of the loop over the lines
performance_scan_line ==
    /\ scan_pc = "loop"
    /\ scan_i < Len(scan_lines)
    /\ LET line == scan_lines[scan_i + 1]
           after == PerformanceStep(line, in_loop, loop_depth)
       IN  /\ in_loop' = after[1]
           /\ loop_depth' = after[2]
           /\ scan_issues' = IF after[1] /\ HasAllocCall(line)
                             THEN Append(scan_issues, PerformanceIssue(line, scan_i + 1))
                             ELSE scan_issues
    /\ scan_i' = scan_i + 1
    /\ UNCHANGED <<scan_pc, scan_lines>>
    /\ UNCHANGED outside_performance_vars

\* line 280: the lines are exhausted and the list is returned
performance_scan_return ==
    /\ scan_pc = "loop"
    /\ scan_i = Len(scan_lines)
    /\ scan_pc' = "done"
    /\ UNCHANGED <<scan_lines, scan_i, in_loop, loop_depth, scan_issues>>
    /\ UNCHANGED outside_performance_vars

NextPerformance == performance_scan_line \/ performance_scan_return

SpecPerformance == InitPerformance /\ [][NextPerformance]_vars

-----------------------------------------------------------------------------
(* _calculate_function_complexity and _rate_complexity on their own: a     *)
(* body is measured, an if statement is appended, the body is measured     *)
(* again; a triple is rated, one of its numbers grows, it is rated again.  *)

MaxBodyPieces == 3

MaxAppended == 1

\* pieces of a function body: the seven counted substrings, alone, inside identifiers and
\* split over two pieces
BodyPieces ==
    <<
        <<"i", "f", " ", "(", "a", ")", " ">>,
        <<"w", "h", "i", "l", "e", "(", "x", "|", "|", "y", ")">>,
        <<"f", "o", "r", "(", ";", ";", ")">>,
        <<"s", "w", "i", "t", "c", "h", "(", "c", ")", "{", "c", "a", "s", "e", " ", "1", ":">>,
        <<"n", "o", "t", "i", "f", "y", "(", "d", "i", "f", "f", ")", ";">>,
        <<"&">>,
        <<"|">>,
        <<"{">>,
        <<"}">>
    >>

FuncBodies ==
    UNION {{Concat([k \in 1..n |-> BodyPieces[f[k]]]) : f \in [1..n -> 1..Len(BodyPieces)]} :
           n \in 0..MaxBodyPieces}

\* an if statement, with and without a block
IfStatements ==
    { <<"i", "f", " ", "(", "x", ")", " ", "y", ";">>,
      <<"\n", "i", "f", "(", "x", ")", "{", "}">> }

\* body with the statement appended: at the end of the text or, when the text ends with the
\* closing brace of a block, as the last statement inside that block
WithAppended(body, stmt) ==
    {body \o stmt}
    \cup (IF body # <<>> /\ body[Len(body)] = "}"
          THEN {SubSeq(body, 1, Len(body) - 1) \o stmt \o <<"}">>}
          ELSE {})

InitComplexity ==
    /\ OthersOff("complexity")
    /\ body_text \in FuncBodies
    /\ cpc = "call"
    /\ complexity = <<>>
    /\ base_complexity = <<>>
    /\ appended = 0

\* lines 255-278
calculate_function_complexity ==
    /\ cpc = "call"
    /\ complexity' = <<_calculate_function_complexity(body_text)>>
    /\ cpc' = "returned"
    /\ UNCHANGED <<body_text, base_complexity, appended>>
    /\ UNCHANGED outside_complexity_vars

\* the caller's next body: the measured one with one more if statement
append_if_statement ==
    /\ cpc = "returned"
    /\ appended < MaxAppended
    /\ \E stmt \in IfStatements : body_text' \in WithAppended(body_text, stmt)
    /\ base_complexity' = complexity
    /\ complexity' = <<>>
    /\ appended' = appended + 1
    /\ cpc' = "call"
    /\ UNCHANGED outside_complexity_vars

NextComplexity == calculate_function_complexity \/ append_if_statement

SpecComplexity == InitComplexity /\ [][NextComplexity]_vars

RatingSlack == 1

\* the numbers within RatingSlack of a threshold of _rate_complexity, and the least one
Near(least, thresholds) ==
    {least} \cup UNION {{v \in (t - RatingSlack)..(t + RatingSlack) : v >= least} :
                        t \in thresholds}

\* <<cyclomatic, line_count, nesting>>: a cyclomatic value is at least 1
RateArgs == Near(1, {5, 10, 20}) \X Near(0, {25, 50, 100}) \X Near(0, {2, 3, 5})

InitRating ==
    /\ OthersOff("rating")
    /\ rate_args \in RateArgs
    /\ rating = ""
    /\ rated_before = <<>>

\* lines 310-319
rate_complexity ==
    /\ rating = ""
    /\ rating' = _rate_complexity(rate_args[1], rate_args[2], rate_args[3])
    /\ UNCHANGED <<rate_args, rated_before>>
    /\ UNCHANGED outside_rating_vars

\* the caller's next triple: the rated one with one of its numbers increased
increase_one_input ==
    /\ rating # ""
    /\ rated_before = <<>>
    /\ \E k \in 1..3 : \E v \in {a[k] : a \in RateArgs} :
           /\ v > rate_args[k]
           /\ rate_args' = [rate_args EXCEPT ![k] = v]
    /\ rated_before' = <<[args |-> rate_args, rating |-> rating]>>
    /\ rating' = ""
    /\ UNCHANGED outside_rating_vars

NextRating == rate_complexity \/ increase_one_input

SpecRating == InitRating /\ [][NextRating]_vars

-----------------------------------------------------------------------------
(* What the claims are stated over: the configured rule set read off       *)
(* `standards` by position, not through the engine's own loops.            *)

\* <<c, r>> for rule r of category c, in rule-set order: categories in configuration order,
\* rules in list order within a category
RuleSetOrder ==
    LET real == UNION {{<<c, r>> : r \in 1..Len(standards[c].rules)} : c \in 1..Len(standards)}
        Before(p, q) == p[1] < q[1] \/ (p[1] = q[1] /\ p[2] < q[2])
        Rank(p) == Cardinality({q \in real : Before(q, p)}) + 1
    IN  [k \in 1..Cardinality(real) |-> CHOOSE p \in real : Rank(p) = k]

RuleAt(p) == standards[p[1]].rules[p[2]]

CategoryAt(p) == standards[p[1]].category

\* the path matches at least one of the rule's glob patterns
PathMatchesRule(p) ==
    \E k \in 1..Len(RuleApplicableFiles(RuleAt(p))) :
        fnmatch(file_path, RuleApplicableFiles(RuleAt(p))[k])

\* the rule is configured under the category the rules_category filter selects, if any
InFilter(p) == rules_category = "" \/ CategoryAt(p) = rules_category

AppliedEntry(category, rule) ==
    [category |-> category, description |-> rule.description, priority |-> rule.priority]

\* the applied_rules entries of the rules that match the path (and the filter), in rule-set order
ExpectedApplied ==
    LET Keep(p) == PathMatchesRule(p) /\ InFilter(p)
        kept == SelectSeq(RuleSetOrder, Keep)
    IN  [k \in 1..Len(kept) |-> AppliedEntry(CategoryAt(kept[k]), RuleAt(kept[k]))]

\* the same without the rules_category filter
ExpectedAppliedUnfiltered ==
    LET kept == SelectSeq(RuleSetOrder, PathMatchesRule)
    IN  [k \in 1..Len(kept) |-> AppliedEntry(CategoryAt(kept[k]), RuleAt(kept[k]))]

\* the positions in `ran` of the rules whose evaluation returned a violation, ascending
ViolatingPositions ==
    LET IsHit(k) == ran[k].result # <<>>
    IN  SelectSeq([k \in 1..Len(ran) |-> k], IsHit)

FamilyOrder ==
    <<"buffer_overflow", "memory_leak", "null_pointer", "dangerous_function", "error_handling",
      "performance", "documentation">>

\* the families one of whose keywords occurs in the description, as positions of FamilyOrder
MatchingFamilies(description) ==
    {i \in 1..Len(FamilyOrder) : KeywordOccurs(FamilyOrder[i], description)}

-----------------------------------------------------------------------------
(* C1: the compliance_score _evaluate_file returns lies in [0, 100], and   *)
(* is exactly 100 when no rule is applicable to the file, also when the    *)
(* rules_category filter selects a category with no applicable rule.       *)
C1_ComplianceBounds ==
    pc = "done" =>
        LET score == summary.compliance_score
        IN  /\ score.den > 0
            /\ 0 <= score.num
            /\ score.num <= 100 * score.den
            /\ (ExpectedApplied = <<>> => score.num = 100 * score.den)

\* a file some rule matches, evaluated under a filter that selects a category without one
C1_Witness ==
    /\ pc = "done"
    /\ rules_category # ""
    /\ ExpectedAppliedUnfiltered # <<>>
    /\ ExpectedApplied = <<>>
    /\ summary.compliance_score.num = 100 * summary.compliance_score.den

(* C2: with at least one applicable rule, compliance_score equals          *)
(* (applicable - violated) / applicable * 100, applicable being the number *)
(* of applied_rules entries (summary.total_rules) and violated the number  *)
(* of violations entries (summary.violations_found).                       *)
C2_ScoreFormula ==
    (pc = "done" /\ Len(applied_rules) > 0) =>
        LET score == summary.compliance_score
            applicable == Len(applied_rules)
            violated == Len(violations)
        IN  /\ summary.total_rules = applicable
            /\ summary.violations_found = violated
            /\ score.num * applicable = (applicable - violated) * 100 * score.den

\* two applied rules, one of them violated: 50
C2_Witness ==
    /\ pc = "done"
    /\ Len(applied_rules) = 2
    /\ Len(violations) = 1
    /\ summary.compliance_score.num = 50 * summary.compliance_score.den

(* C4: evaluating a rule emits at most one violation, so there are never   *)
(* more violations than applied rules, and each violation carries its      *)
(* rule's description unchanged as rule_description.                       *)
C4_AtMostOneViolation ==
    /\ Len(violations) <= Len(applied_rules)
    /\ Len(ran) = Len(applied_rules)
    /\ Len(violations) = Len(ViolatingPositions)
    /\ \A k \in 1..Len(ran) : Len(ran[k].result) <= 1
    /\ \A j \in 1..Len(violations) :
          violations[j].rule_description = ran[ViolatingPositions[j]].rule.description

\* a violated rule whose description has capitals, after a rule that was not violated
C4_Witness ==
    /\ pc = "done"
    /\ Len(applied_rules) >= 2
    /\ Len(violations) = 1
    /\ ran[1].result = <<>>
    /\ violations[1].rule_description = Descriptions[1]

(* C5: the description is tested against the seven families in the order   *)
(* buffer-overflow, memory-leak, null-pointer, dangerous-function,         *)
(* error-handling, performance, documentation; the evaluator that runs is  *)
(* that of the first family with a keyword in the description, and the     *)
(* generic one exactly when no family has one.                             *)
C5_FirstFamilyWins ==
    \A k \in 1..Len(ran) :
        LET m == MatchingFamilies(ran[k].rule.description)
        IN  /\ m # {} => ran[k].evaluator = FamilyOrder[Min(m)]
            /\ m = {} <=> ran[k].evaluator = "generic"
            /\ ran[k].result # <<>> => ran[k].result[1].violation_type = ran[k].evaluator

\* a description with keywords of two families, violated under the earlier family
C5_Witness ==
    \E k \in 1..Len(ran) :
        /\ Cardinality(MatchingFamilies(ran[k].rule.description)) >= 2
        /\ ran[k].result # <<>>
        /\ ran[k].result[1].violation_type = "memory_leak"

(* C6, as amended: a rule appears in applied_rules exactly when the path   *)
(* matches at least one of its glob patterns and, if a rules_category      *)
(* filter is given, the rule is configured under that category; a rule     *)
(* with applicable_files = ["*.c"] is never applied to a path ending in .h *)
C6_AppliedIffMatchesInFilter ==
    pc = "done" =>
        /\ \A e \in {ExpectedApplied[k] : k \in 1..Len(ExpectedApplied)}
                 \cup {applied_rules[k] : k \in 1..Len(applied_rules)} :
              Cardinality({k \in 1..Len(applied_rules) : applied_rules[k] = e})
                = Cardinality({k \in 1..Len(ExpectedApplied) : ExpectedApplied[k] = e})
        /\ summary.total_rules = Len(ExpectedApplied)
        /\ (Len(file_path) >= 2 /\ SubSeq(file_path, Len(file_path) - 1, Len(file_path)) = <<".",
                                                                                             "h">>)
              => \A k \in 1..Len(ran) :
                    ~(ran[k].rule.has_applicable_files
                      /\ ran[k].rule.applicable_files = << <<"*", ".", "c">> >>)

\* a .h file: a configured *.c rule is left out, a rule matching through its second pattern is in
C6_Witness ==
    /\ pc = "done"
    /\ file_path = <<"a", ".", "h">>
    /\ \E p \in {RuleSetOrder[k] : k \in 1..Len(RuleSetOrder)} :
          /\ RuleAt(p).has_applicable_files
          /\ RuleAt(p).applicable_files = << <<"*", ".", "c">> >>
          /\ InFilter(p)
    /\ \E k \in 1..Len(ran) : Len(RuleApplicableFiles(ran[k].rule)) = 2
    /\ Len(applied_rules) < Len(RuleSetOrder)

(* C6 as claimed: applied_rules holds exactly the rules one of whose glob  *)
(* patterns the path matches.                                              *)
C6_AppliedIffMatches ==
    pc = "done" =>
        \A e \in {ExpectedAppliedUnfiltered[k] : k \in 1..Len(ExpectedAppliedUnfiltered)}
                 \cup {applied_rules[k] : k \in 1..Len(applied_rules)} :
            Cardinality({k \in 1..Len(applied_rules) : applied_rules[k] = e})
              = Cardinality({k \in 1..Len(ExpectedAppliedUnfiltered) :
                                ExpectedAppliedUnfiltered[k] = e})

(* C7: a rule whose description is empty or has no family keyword reaches  *)
(* the generic evaluator, which returns a violation or none, and the       *)
(* remaining rules of the file are still evaluated.                        *)
C7_UnclassifiableReachesGeneric ==
    /\ \A k \in 1..Len(ran) :
          MatchingFamilies(ran[k].rule.description) = {} =>
              /\ ran[k].evaluator = "generic"
              /\ \/ ran[k].result = <<>>
                 \/ /\ Len(ran[k].result) = 1
                    /\ ran[k].result[1].violation_type = "generic"
    /\ pc = "done" => Len(ran) = Len(ExpectedApplied)

\* an empty description evaluated first, without a violation, and the next rule evaluated after it
C7_Witness ==
    /\ pc = "done"
    /\ Len(ran) >= 2
    /\ ran[1].rule.description = <<>>
    /\ ran[1].evaluator = "generic"
    /\ ran[1].result = <<>>
    /\ ran[2].result # <<>>

(* C8: the severity of a violation a family evaluator emits is derived     *)
(* from the rule's configured priority: whatever the mapping, two such     *)
(* violations of rules with one priority have one severity.                *)
C8_SeverityFromPriority ==
    \A j, k \in 1..Len(ran) :
        ( /\ ran[j].evaluator # "generic" /\ ran[j].result # <<>>
          /\ ran[k].evaluator # "generic" /\ ran[k].result # <<>>
          /\ ran[j].rule.priority = ran[k].rule.priority )
        => ran[j].result[1].severity = ran[k].result[1].severity

(* C9: applied_rules lists the applicable rules in rule-set order, and the *)
(* violations come in that order too: the j-th violation is that of the    *)
(* j-th violated rule of applied_rules.                                    *)
C9_RuleSetOrder ==
    /\ pc = "done" => applied_rules = ExpectedApplied
    /\ \A k \in 1..Len(applied_rules) : applied_rules[k] = ExpectedApplied[k]
    /\ Len(violations) = Len(ViolatingPositions)
    /\ \A j \in 1..Len(violations) :
          LET at == ViolatingPositions[j]
          IN  /\ violations[j] = WithCategory(ran[at].result[1], ran[at].category)
              /\ violations[j].category = applied_rules[at].category
              /\ violations[j].rule_description = applied_rules[at].description

\* two categories with a violated rule each, after a rule that was not violated
C9_Witness ==
    /\ pc = "done"
    /\ Len(violations) = 2
    /\ violations[1].category # violations[2].category
    /\ violations[1].violation_type # violations[2].violation_type

\* the whitespace-delimited words of a text, each as <<first, last>>
WordSpans(text) ==
    {w \in (1..Len(text)) \X (1..Len(text)) :
        /\ w[1] <= w[2]
        /\ \A i \in w[1]..w[2] : ~IsSpace(text[i])
        /\ w[1] = 1 \/ IsSpace(text[w[1] - 1])
        /\ w[2] = Len(text) \/ IsSpace(text[w[2] + 1])}

\* the words of the description that are longer than 3 characters and occur in the source
\* text, case ignored
OccurringWords(description) ==
    {w \in WordSpans(description) :
        /\ w[2] - w[1] + 1 > 3
        /\ Contains(Lower(code_content), Lower(SubSeq(description, w[1], w[2])))}

\* C20: the generic evaluator emits a violation if and only if some whitespace-delimited
\* word of the rule description that is longer than 3 characters occurs, case-insensitively,
\* as a substring of the source text; the violation's detected_pattern is the first such
\* word in description order and its severity is the rule's priority.
C20_GenericWordMatch ==
    \A k \in 1..Len(ran) :
        ran[k].evaluator = "generic" =>
            LET description == ran[k].rule.description
                words == OccurringWords(description)
            IN  /\ ran[k].result # <<>> <=> words # {}
                /\ words # {} =>
                       LET first == CHOOSE w \in words : \A v \in words : w[1] <= v[1]
                       IN  /\ ran[k].result[1].detected_pattern
                              = SubSeq(description, first[1], first[2])
                           /\ ran[k].result[1].severity = ran[k].rule.priority

\* a generic violation whose word is not the first long word of the description and is
\* written in the source in another case
C20_Witness ==
    \E k \in 1..Len(ran) :
        /\ ran[k].evaluator = "generic"
        /\ ran[k].result # <<>>
        /\ \E w \in WordSpans(ran[k].rule.description) :
               /\ w[2] - w[1] + 1 > 3
               /\ w \notin OccurringWords(ran[k].rule.description)
        /\ ~Contains(code_content, ran[k].result[1].detected_pattern)

-----------------------------------------------------------------------------
(* Function extraction                                                     *)

\* the depth a left-to-right scan of body has after n characters (+1 on '{', -1 on '}')
BraceDepth(body, n) == NestingScan(body, n)[2]

\* C3: for every FunctionRecord produced by _extract_functions, on any source text, the
\* extracted body text has equally many '{' and '}' and a left-to-right scan of it never
\* drives the depth below zero.
C3_BodyBraceBalanced ==
    \A k \in 1..Len(functions) :
        LET body == functions[k].body
        IN  /\ BraceDepth(body, Len(body)) = 0
            /\ \A n \in 0..Len(body) : BraceDepth(body, n) >= 0

\* the names the file-level aggregate is to report
AggregateNames == {"average_complexity", "max_complexity", "total_functions", "complex_functions"}

\* C15: once _run has stored the file-level aggregate, it reports the arithmetic mean and the
\* maximum of the extracted functions' cyclomatic values and complex_functions = the number of
\* functions whose value is above 10; for a file without a function all four of average,
\* maximum, total_functions and complex_functions are reported as zero and there is no error.
C15_FileAggregates ==
    "complexity_metrics" \in DOMAIN analysis =>
        LET metrics == analysis.complexity_metrics
            values == CyclomaticOf(analysis.functions)
        IN  /\ run_error = ""
            /\ AggregateNames \subseteq DOMAIN metrics
            /\ metrics.total_functions = Len(values)
            /\ metrics.average_complexity.num * Len(values) =
                   SumSeq(values) * metrics.average_complexity.den
            /\ metrics.max_complexity = Max({0} \cup {values[k] : k \in 1..Len(values)})
            /\ metrics.complex_functions = Cardinality({k \in 1..Len(values) : values[k] > 10})

\* the keys of the five structural lists
ListNames == {"functions", "structs", "macros", "includes", "global_variables"}

\* whether a value is a list
IsList(value) == DOMAIN value = 1..Len(value)

\* the messages of the error dicts that come from the file rather than from its text
FileErrors == {"File not found", "OSError", "UnicodeDecodeError"}

DepthBeforeLine(lines, i) ==
    Count(JoinLines(SubSeq(lines, 1, i - 1)), <<"{">>)
    - Count(JoinLines(SubSeq(lines, 1, i - 1)), <<"}">>)

\* C23: every record of _extract_global_vars comes from a line at brace depth exactly 0, that
\* is, a line nested in no block (a line that itself closes a block is nested in that block),
\* and that is not a preprocessor directive.
C23_GlobalsAtDepthZero ==
    ppc = "done" /\ run_error = "" =>
        \A k \in 1..Len(analysis.global_variables) :
            LET lines == SplitLines(content)
                i == analysis.global_variables[k].line_number
            IN  /\ i \in 1..Len(lines)
                /\ DepthBeforeLine(lines, i) = 0
                /\ DepthBeforeLine(lines, i + 1) = 0
                /\ ~StartsAt(Strip(lines[i]), <<"#">>, 1)

\* whether '(' is the character right after the name of the macro the record was made for
ParenFollowsName(text, macro) ==
    \E b \in 0..Len(text) :
        /\ StartsAt(text, <<"#", "d", "e", "f", "i", "n", "e">>, b + 1)
        /\ Count(Slice(text, 0, b), <<"\n">>) + 1 = macro.line_number
        /\ LET name_end == WordEnd(text, SkipSpaces(text, b + 7))
           IN  name_end < Len(text) /\ text[name_end + 1] = "("

\* C24: for every macro record, is_function_like is true if and only if an opening
\* parenthesis directly follows the macro name, no whitespace between them: an object-like
\* macro whose value is in parentheses after whitespace is not function-like.
C24_FunctionLikeIff ==
    ppc = "done" /\ run_error = "" =>
        \A k \in 1..Len(analysis.macros) :
            analysis.macros[k].is_function_like
            <=> ParenFollowsName(content, analysis.macros[k])

\* the braces of a text, in order
Braces(text) ==
    LET at == {i \in 1..Len(text) : text[i] \in {"{", "}"}}
        RECURSIVE pick(_)
        pick(from) == IF \A i \in at : i < from THEN <<>>
                      ELSE LET i == Min({x \in at : x >= from})
                           IN  <<text[i]>> \o pick(i + 1)
    IN  pick(1)

\* the function's block holds three loops, each loop body one brace block inside the previous
\* one, and no other braces
ThreeNestedLoopBodies(body) ==
    /\ Braces(body) = <<"{", "{", "{", "{", "}", "}", "}", "}">>
    /\ Count(body, <<"f", "o", "r", "(">>) + Count(body, <<"w", "h", "i", "l", "e", "(">>) = 3

\* C13: for any extracted function whose body consists of three sequentially nested loop
\* bodies (each one brace block inside the previous, no other braces), the reported
\* nesting_level is 3.
C13_ThreeLoopsNestingThree ==
    \A k \in 1..Len(functions) :
        ThreeNestedLoopBodies(functions[k].body) => functions[k].complexity.nesting_level = 3

-----------------------------------------------------------------------------
(* Complexity metrics                                                      *)

\* C14: for every function body text B, the cyclomatic complexity computed for B with one
\* additional if statement appended is greater than or equal to the one computed for B.
C14_AppendedIfNeverDecreases ==
    (cpc = "returned" /\ base_complexity # <<>>)
    => complexity[1].cyclomatic_complexity >= base_complexity[1].cyclomatic_complexity

\* a body that already had decisions was measured again with an if statement appended
C14_Witness ==
    /\ cpc = "returned"
    /\ base_complexity # <<>>
    /\ base_complexity[1].cyclomatic_complexity > 1
    /\ complexity[1].cyclomatic_complexity > base_complexity[1].cyclomatic_complexity

\* the number of non-overlapping occurrences of sub in text: the size of a largest set of
\* places where sub begins of which no two overlap
DisjointOccurrences(text, sub) ==
    LET places == {i \in 1..Len(text) : StartsAt(text, sub, i)}
        disjoint == {S \in SUBSET places :
                        \A a, b \in S : a # b => (a - b >= Len(sub) \/ b - a >= Len(sub))}
    IN  Max({Cardinality(S) : S \in disjoint})

\* C18: for every function body text, cyclomatic_complexity = 1 + the number of
\* non-overlapping substring occurrences of 'if', 'while', 'for', 'switch', 'case', '&&' and
\* '||' in the raw body text, identifiers, strings and comments included.
C18_CyclomaticIsOnePlusOccurrences ==
    cpc = "returned"
    => complexity[1].cyclomatic_complexity
       = 1 + DisjointOccurrences(body_text, <<"i", "f">>)
           + DisjointOccurrences(body_text, <<"w", "h", "i", "l", "e">>)
           + DisjointOccurrences(body_text, <<"f", "o", "r">>)
           + DisjointOccurrences(body_text, <<"s", "w", "i", "t", "c", "h">>)
           + DisjointOccurrences(body_text, <<"c", "a", "s", "e">>)
           + DisjointOccurrences(body_text, <<"&", "&">>)
           + DisjointOccurrences(body_text, <<"|", "|">>)

\* a measured body whose only 'if's are inside the identifiers notify and diff, with one '&&'
C18_Witness ==
    /\ cpc = "returned"
    /\ Contains(body_text, <<"n", "o", "t", "i", "f", "y", "(", "d", "i", "f", "f", ")">>)
    /\ ~Contains(body_text, <<"i", "f", " ">>)
    /\ Contains(body_text, <<"&", "&">>)
    /\ complexity[1].cyclomatic_complexity = 4

\* how many of the thresholds the value exceeds
Exceeded(value, thresholds) == Cardinality({t \in thresholds : value > t})

\* low, medium, high, very_high as 0..3
RatingRank(r) ==
    CASE r = "low" -> 0 [] r = "medium" -> 1 [] r = "high" -> 2 [] r = "very_high" -> 3

\* C19: the rating is very_high if cyclomatic > 20 or lines > 100 or nesting > 5; otherwise
\* high if cyclomatic > 10 or lines > 50 or nesting > 3; otherwise medium if cyclomatic > 5
\* or lines > 25 or nesting > 2; otherwise low (the rating is the highest step any one of the
\* three numbers reaches); it never decreases when one of the three inputs increases.
C19_RatingTable ==
    rating # ""
    => /\ RatingRank(rating) = Max({Exceeded(rate_args[1], {5, 10, 20}),
                                    Exceeded(rate_args[2], {25, 50, 100}),
                                    Exceeded(rate_args[3], {2, 3, 5})})
       /\ rated_before # <<>> => RatingRank(rating) >= RatingRank(rated_before[1].rating)

\* a triple rated high was rated very_high after one of its numbers grew
C19_Witness ==
    /\ rating = "very_high"
    /\ rated_before # <<>>
    /\ rated_before[1].rating = "high"

-----------------------------------------------------------------------------
(* The heuristic detector                                                  *)

\* the entries of issues with the given category, in list order
IssuesOf(category) ==
    LET keep == {k \in 1..Len(issues) : issues[k].category = category}
        RECURSIVE pick(_)
        pick(from) == IF \A k \in keep : k < from THEN <<>>
                      ELSE LET k == Min({x \in keep : x >= from})
                           IN  <<issues[k]>> \o pick(k + 1)
    IN  pick(1)

\* the memory pass has run on a file that was read
MemoryPassDone == readable /\ apc \in {"performance", "style", "done"}

\* the security pass has run on a file that was read
SecurityPassDone == readable /\ apc \in {"memory", "performance", "style", "done"}

\* the calls of malloc and calloc, and of free, written in the text
AllocationCalls(text) == Count(text, s_malloc_call) + Count(text, s_calloc_call)
FreeCalls(text) == Count(text, s_free \o <<"(">>)

\* C11: for any file containing exactly two allocation calls (malloc/calloc) and exactly one
\* free call, the memory pass produces exactly one memory-category issue; it is of medium
\* severity and its message cites the counts 2 and 1.
C11_TwoAllocationsOneFree ==
    (MemoryPassDone /\ AllocationCalls(file_content) = 2 /\ FreeCalls(file_content) = 1)
    => /\ Len(IssuesOf("memory")) = 1
       /\ IssuesOf("memory")[1].severity = "medium"
       /\ Contains(IssuesOf("memory")[1].message, <<"2">>)
       /\ Contains(IssuesOf("memory")[1].message, <<"1">>)

\* the names of the catalog, as the claim lists them
CatalogNames ==
    { <<"s", "t", "r", "c", "p", "y">>, <<"s", "t", "r", "c", "a", "t">>,
      <<"s", "p", "r", "i", "n", "t", "f">>, <<"g", "e", "t", "s">> }

\* a call of the function `name` is written on the line: the name, not as the tail of a longer
\* identifier, followed by '('
CallOn(line, name) ==
    \E p \in 1..Len(line) : /\ StartsAt(line, name \o <<"(">>, p)
                            /\ p = 1 \/ ~IsWordChar(line[p - 1])

\* C12: the security pass emits a security issue for a line only if a call to a catalog
\* function (strcpy, strcat, sprintf, gets) occurs on that line, with severity critical for
\* gets and high for the others; a line with a strcpy call and no other catalog call yields
\* exactly one security issue, carrying that line's 1-based number and naming strcpy.
C12_SecurityOnlyForCatalogCalls ==
    SecurityPassDone =>
        LET lines == SplitLines(file_content)
            found == IssuesOf("security")
            strcpy == <<"s", "t", "r", "c", "p", "y">>
        IN  /\ \A k \in 1..Len(found) :
                   /\ found[k].line \in 1..Len(lines)
                   /\ \E name \in CatalogNames :
                          /\ CallOn(lines[found[k].line], name)
                          /\ Contains(found[k].message, name)
                          /\ found[k].severity =
                                 IF name = <<"g", "e", "t", "s">> THEN "critical" ELSE "high"
            /\ \A i \in 1..Len(lines) :
                   (CallOn(lines[i], strcpy)
                    /\ \A name \in CatalogNames \ {strcpy} : ~CallOn(lines[i], name))
                   => /\ Cardinality({k \in 1..Len(found) : found[k].line = i}) = 1
                      /\ \A k \in 1..Len(found) :
                             found[k].line = i => Contains(found[k].message, strcpy)

\* whether the line holds the token NULL or null
HasNullToken(line) == Contains(line, s_NULL) \/ Contains(line, s_null)

\* the lines the memory pass anchors a null-check finding at (the count finding has no line)
NullCheckFindingLines == {IssuesOf("memory")[k].line : k \in 1..Len(IssuesOf("memory"))} \ {0}

\* C21: the memory pass emits a medium null-check finding anchored at line i if and only if
\* line i contains an allocation call (malloc( or calloc() together with an assignment '='
\* and none of the up to 4 lines immediately following line i, clipped at the end of the
\* file, contains NULL or null; a token on line i itself or on the 5th following line does
\* not suppress the finding.
C21_NullCheckFindingIff ==
    MemoryPassDone =>
        LET lines == SplitLines(file_content)
            found == IssuesOf("memory")
        IN  /\ \A i \in 1..Len(lines) :
                   i \in NullCheckFindingLines
                   <=> /\ HasAllocCall(lines[i])
                       /\ Contains(lines[i], <<"=">>)
                       /\ \A d \in 1..4 : i + d <= Len(lines) => ~HasNullToken(lines[i + d])
            /\ \A k \in 1..Len(found) : found[k].severity = "medium"
            /\ NullCheckFindingLines \subseteq 1..Len(lines)

\* a finding at a line whose fifth following line holds the null check
C21_Witness ==
    /\ MemoryPassDone
    /\ \E i \in NullCheckFindingLines :
           /\ i + 5 <= Len(SplitLines(file_content))
           /\ HasNullToken(SplitLines(file_content)[i + 5])

\* the braces of a line in order, an opening one marked by whether the line introduces a loop
BraceMarks(line) ==
    [j \in 1..Len(Braces(line)) |->
        IF Braces(line)[j] = "}" THEN "}"
        ELSE IF HasLoopKeyword(Strip(line)) THEN "loop" ELSE "block"]

\* the open blocks, innermost last, after the marks: '{' opens one, '}' closes the innermost
RECURSIVE AfterMarks(_, _)
AfterMarks(open, marks) ==
    IF marks = <<>> THEN open
    ELSE AfterMarks(IF Head(marks) # "}" THEN Append(open, Head(marks))
                    ELSE IF open = <<>> THEN open
                    ELSE SubSeq(open, 1, Len(open) - 1),
                    Tail(marks))

\* the blocks that are open after the first n lines
RECURSIVE OpenBlocks(_, _)
OpenBlocks(lines, n) ==
    IF n = 0 THEN <<>> ELSE AfterMarks(OpenBlocks(lines, n - 1), BraceMarks(lines[n]))

\* line i introduces a loop or begins inside the braces of one
InLoopScope(lines, i) ==
    \/ HasLoopKeyword(Strip(lines[i]))
    \/ \E k \in 1..Len(OpenBlocks(lines, i - 1)) : OpenBlocks(lines, i - 1)[k] = "loop"

\* the lines the scan has reported
ScanFindingLines == {scan_issues[k].line : k \in 1..Len(scan_issues)}

\* C22: the performance pass emits a medium finding at a line if and only if that line
\* contains an allocation call (malloc( or calloc() and lies inside the brace-delimited scope
\* of a loop introduced by a line containing for(, while( or do{, the loop line included: an
\* allocation in a loop body after a nested if-block is flagged, one after the loop's closing
\* brace is not.
C22_PerformanceFindingIff ==
    scan_pc = "done" =>
        /\ \A i \in 1..Len(scan_lines) :
               i \in ScanFindingLines
               <=> HasAllocCall(scan_lines[i]) /\ InLoopScope(scan_lines, i)
        /\ \A k \in 1..Len(scan_issues) : scan_issues[k].severity = "medium"

\* C26: throughout the line-by-line scan of the performance pass, after any prefix of the
\* lines, loop_depth >= 0 and in_loop is true exactly when loop_depth > 0.
C26_LoopDepthInvariant ==
    scan_pc \in {"loop", "done"} => /\ loop_depth >= 0
                                    /\ in_loop <=> loop_depth > 0

\* the scan has entered two loops, left the inner one, and met a '}' outside any loop before
C26_Witness ==
    /\ scan_pc = "loop"
    /\ scan_i >= 3
    /\ loop_depth = 1
    /\ Contains(scan_lines[scan_i], <<"}">>)
    /\ HasLoopKeyword(scan_lines[scan_i - 1])
    /\ HasLoopKeyword(scan_lines[scan_i - 2])

\* the lines of the findings of the performance pass
PerformanceFindingLines ==
    {IssuesOf("performance")[k].line : k \in 1..Len(IssuesOf("performance"))}

\* an evaluator's result and a pass's finding lines agree: both empty, or the violation is at
\* the first of the lines
SameFirstLine(reported, finding_lines) ==
    /\ reported = <<>> <=> finding_lines = {}
    /\ reported # <<>> => reported[1].line_number = Min(finding_lines)

\* C25: each family evaluator of the rule engine agrees with the corresponding detector pass
\* on every text: the dangerous-function and buffer-overflow evaluators report a violation
\* exactly when the security pass emits an issue, the memory-leak evaluator exactly when the
\* memory pass emits its count-mismatch issue, the null-pointer and performance evaluators
\* exactly when the memory pass emits a null-check finding and the performance pass a
\* finding, at the same first line.
C25_EvaluatorsMirrorPasses ==
    readable /\ apc = "done" =>
        /\ _check_dangerous_functions(file_content, <<>>) # <<>>
           <=> IssuesOf("security") # <<>>
        /\ _check_buffer_overflow(file_content, <<>>) # <<>>
           <=> IssuesOf("security") # <<>>
        /\ _check_memory_leak(file_content, <<>>) # <<>>
           <=> \E k \in 1..Len(IssuesOf("memory")) : IssuesOf("memory")[k].line = 0
        /\ SameFirstLine(_check_null_pointer(file_content, <<>>), NullCheckFindingLines)
        /\ SameFirstLine(_check_performance(file_content, <<>>), PerformanceFindingLines)

-----------------------------------------------------------------------------
(* ConfigManager: save_review_standards and get_rules_for_file on one       *)
(* instance.  A dict of standards is a sequence of [category, rules] in key *)
(* order, which json.dump and json.load keep.                               *)

MaxConfigCalls == 4

\* standards.items() walked by the loops of lines 232-240: a rule is appended at the first of
\* its patterns that matches
RECURSIVE RulesForFile(_, _)
RulesForFile(saved, path) ==
    IF saved = <<>> THEN <<>>
    ELSE LET rules == Head(saved).rules
             keep == {k \in 1..Len(rules) :
                         \E n \in 1..Len(RuleApplicableFiles(rules[k])) :
                             fnmatch(path, RuleApplicableFiles(rules[k])[n])}
             RECURSIVE pick(_)
             pick(from) == IF \A k \in keep : k < from THEN <<>>
                           ELSE LET k == Min({x \in keep : x >= from})
                                IN  <<rules[k]>> \o pick(k + 1)
         IN  pick(1) \o RulesForFile(Tail(saved), path)

\* lines 139-149 for a file that is absent or holds what json.dump wrote
get_review_standards ==
    IF review_standards_file = <<>> THEN _get_default_review_standards
    ELSE review_standards_file[1]

\* maxsize of the lru_cache
CacheMaxSize == 128

\* the entries of the cache for a path (at most one)
CacheHits(path) == {k \in 1..Len(rules_cache) : rules_cache[k].args = path}

\* the cache without its k-th entry
CacheWithout(k) == SubSeq(rules_cache, 1, k - 1) \o SubSeq(rules_cache, k + 1, Len(rules_cache))

\* the standards a caller may save, the empty dict among them
SavedStandards ==
    { <<>>,
      <<[category |-> "security", rules |-> <<RulePool("security")[1]>>]>>,
      <<[category |-> "custom", rules |-> <<RulePool("custom")[2], RulePool("custom")[3]>>],
        [category |-> "security", rules |-> <<RulePool("security")[5]>>]>> }

\* a manager on a directory whose review_standards.json is absent or was written earlier
InitConfig ==
    /\ OthersOff("config")
    /\ review_standards_file \in {<<>>} \cup {<<saved>> : saved \in SavedStandards}
    /\ rules_cache = <<>>
    /\ config_call = "none"
    /\ returned_path = <<>>
    /\ returned_rules = <<>>
    /\ config_calls = 0

\* lines 131-134: the file is rewritten with the standards
save_review_standards ==
    /\ config_calls < MaxConfigCalls
    /\ \E saved \in SavedStandards : review_standards_file' = <<saved>>
    /\ config_call' = "save"
    /\ config_calls' = config_calls + 1
    /\ UNCHANGED <<rules_cache, returned_path, returned_rules>>
    /\ UNCHANGED outside_config_vars

\* lines 132, 135-137: open() raises, the file is as before and the error is raised again
save_review_standards_failed ==
    /\ config_calls < MaxConfigCalls
    /\ config_call' = "save_failed"
    /\ config_calls' = config_calls + 1
    /\ UNCHANGED <<review_standards_file, rules_cache, returned_path, returned_rules>>
    /\ UNCHANGED outside_config_vars

\* line 224 on a hit: the stored list is returned and its entry becomes the most recent
get_rules_for_file_cached ==
    /\ config_calls < MaxConfigCalls
    /\ \E path \in Paths :
          /\ CacheHits(path) # {}
          /\ LET k == Min(CacheHits(path))
             IN  /\ returned_rules' = rules_cache[k].value
                 /\ rules_cache' = <<rules_cache[k]>> \o CacheWithout(k)
          /\ returned_path' = path
    /\ config_call' = "get"
    /\ config_calls' = config_calls + 1
    /\ UNCHANGED review_standards_file
    /\ UNCHANGED outside_config_vars

\* lines 224-242 on a miss: the body runs, its result is stored and, beyond maxsize, the
\* least recently used entry is dropped
get_rules_for_file ==
    /\ config_calls < MaxConfigCalls
    /\ \E path \in Paths :
          /\ CacheHits(path) = {}
          /\ LET applicable_rules == RulesForFile(get_review_standards, path)
                 stored == <<[args |-> path, value |-> applicable_rules]>> \o rules_cache
             IN  /\ returned_rules' = applicable_rules
                 /\ rules_cache' = SubSeq(stored, 1, Min({Len(stored), CacheMaxSize}))
          /\ returned_path' = path
    /\ config_call' = "get"
    /\ config_calls' = config_calls + 1
    /\ UNCHANGED review_standards_file
    /\ UNCHANGED outside_config_vars

NextConfig ==
    \/ save_review_standards
    \/ save_review_standards_failed
    \/ get_rules_for_file_cached
    \/ get_rules_for_file

SpecConfig == InitConfig /\ [][NextConfig]_vars

\* C27: after any sequence of save_review_standards and get_rules_for_file calls on one
\* ConfigManager, get_rules_for_file(path) returns exactly the rules of the most recently
\* saved standards whose applicable_files patterns match path, in configuration order, even
\* when the same path was queried before the save.
C27_RulesOfLatestSave ==
    config_call = "get" => returned_rules = RulesForFile(get_review_standards, returned_path)

-----------------------------------------------------------------------------
(* CReviewResult: add_issue, add_file_analysis and finalize.  A dict of     *)
(* counts is a function on its keys; a float score is the exact fraction    *)
(* [num, den].                                                              *)

MaxIssues == 2

MaxAnalyses == 2

\* the issues a caller may add: file_path, severity (one outside severity_weights) and category
IssueChoices ==
    [file_path : {<<"a", ".", "c">>, <<"a", ".", "h">>},
     severity : {"critical", "info"},
     category : {"security", "quality"}]

\* the analyses a caller may add: an empty file and a long, complex one
AnalysisChoices ==
    { [file_path |-> <<"a", ".", "c">>, line_count |-> 0, complexity_score |-> 0],
      [file_path |-> <<"a", ".", "c">>, line_count |-> 120, complexity_score |-> 45],
      [file_path |-> <<"a", ".", "h">>, line_count |-> 7, complexity_score |-> 130] }

\* the fields of CReviewSummary read here, with their defaults (lines 50-57)
CReviewSummary ==
    [total_files |-> 0, total_lines |-> 0, total_functions |-> 0, total_issues |-> 0,
     issues_by_severity |-> <<>>, issues_by_category |-> <<>>,
     files_with_issues |-> 0, clean_files |-> 0]

\* a float that holds a whole number
Whole(n) == [num |-> n, den |-> 1]

\* lines 109-116: the dict of the counts of the values found under a key of the issues
CountsBy(found, key) ==
    [value \in {found[k][key] : k \in 1..Len(found)} |->
        Cardinality({k \in 1..Len(found) : found[k][key] = value})]

\* lines 101-127
calculate_summary ==
    LET files_with_issues == {result_issues[k].file_path : k \in 1..Len(result_issues)}
    IN  [total_files |-> Len(reviewed_files),
         total_lines |-> total_lines_reviewed,
         total_functions |-> result_summary.total_functions,
         total_issues |-> Len(result_issues),
         issues_by_severity |-> CountsBy(result_issues, "severity"),
         issues_by_category |-> CountsBy(result_issues, "category"),
         files_with_issues |-> Cardinality(files_with_issues),
         clean_files |-> Len(reviewed_files) - Cardinality(files_with_issues)]

\* lines 137-142 with .get(issue.severity, 1)
SeverityWeight(severity) ==
    CASE severity = "critical" -> 10
      [] severity = "high" -> 5
      [] severity = "medium" -> 2
      [] OTHER -> 1

\* lines 131-170
calculate_metrics ==
    IF result_issues = <<>>
    THEN [result_metrics EXCEPT !.overall_quality_score = Whole(100),
                                !.security_score = Whole(100)]
    ELSE LET total_weight ==
                 SumSeq([k \in 1..Len(result_issues) |->
                            SeverityWeight(result_issues[k].severity)])
             of_category(category) ==
                 Cardinality({k \in 1..Len(result_issues) :
                                 result_issues[k].category = category})
             n == Len(file_analyses)
             total == SumSeq([k \in 1..n |-> file_analyses[k].complexity_score])
             complexity_score ==
                 IF n > 0 THEN [num |-> Max({0, 100 * n - total}), den |-> n]
                 ELSE Whole(100)
             c == complexity_score
         IN  [overall_quality_score |-> Whole(Max({0, 100 - total_weight * 2})),
              security_score |-> Whole(Max({0, 100 - of_category("security") * 15})),
              performance_score |-> Whole(Max({0, 100 - of_category("performance") * 10})),
              complexity_score |-> complexity_score,
              maintainability_score |->
                  [num |-> Max({0, 100 * c.den - 6 * Len(result_issues) * c.den + c.num}),
                   den |-> 2 * c.den]]

\* a result as constructed: the caller gives reviewed_files (a name may be listed twice) and
\* the metrics; issues, file_analyses and summary have their defaults
InitResult ==
    /\ OthersOff("result")
    /\ reviewed_files \in {<<>>, << <<"a", ".", "c">> >>,
                           << <<"a", ".", "c">>, <<"a", ".", "c">> >>}
    /\ total_lines_reviewed = 0
    /\ result_issues = <<>>
    /\ file_analyses = <<>>
    /\ result_summary = CReviewSummary
    /\ result_metrics = [overall_quality_score |-> Whole(0), complexity_score |-> Whole(0),
                         maintainability_score |-> Whole(0), security_score |-> Whole(0),
                         performance_score |-> Whole(0)]
    /\ result_pc = "open"

\* line 174
add_issue ==
    /\ result_pc \in {"open", "final"}
    /\ Len(result_issues) < MaxIssues
    /\ \E issue \in IssueChoices : result_issues' = Append(result_issues, issue)
    /\ result_pc' = "open"
    /\ UNCHANGED <<reviewed_files, total_lines_reviewed, file_analyses, result_summary,
                   result_metrics>>
    /\ UNCHANGED outside_result_vars

\* lines 178-181
add_file_analysis ==
    /\ result_pc \in {"open", "final"}
    /\ Len(file_analyses) < MaxAnalyses
    /\ \E analysis_added \in AnalysisChoices :
          /\ file_analyses' = Append(file_analyses, analysis_added)
          /\ reviewed_files' =
                 IF \E k \in 1..Len(reviewed_files) :
                        reviewed_files[k] = analysis_added.file_path
                 THEN reviewed_files
                 ELSE Append(reviewed_files, analysis_added.file_path)
          /\ total_lines_reviewed' = total_lines_reviewed + analysis_added.line_count
    /\ result_pc' = "open"
    /\ UNCHANGED <<result_issues, result_summary, result_metrics>>
    /\ UNCHANGED outside_result_vars

\* lines 205-206
finalize ==
    /\ result_pc = "open"
    /\ result_summary' = calculate_summary
    /\ result_metrics' = calculate_metrics
    /\ result_pc' = "final"
    /\ UNCHANGED <<reviewed_files, total_lines_reviewed, result_issues, file_analyses>>
    /\ UNCHANGED outside_result_vars

NextResult ==
    \/ add_issue
    \/ add_file_analysis
    \/ finalize

SpecResult == InitResult /\ [][NextResult]_vars

\* the sum of the values of a dict of counts
RECURSIVE SumCounts(_)
SumCounts(counts) ==
    IF DOMAIN counts = {} THEN 0
    ELSE LET key == CHOOSE x \in DOMAIN counts : TRUE
         IN  counts[key] + SumCounts([x \in DOMAIN counts \ {key} |-> counts[x]])

\* C28: after any sequence of add_issue and add_file_analysis calls followed by finalize, the
\* summary has total_issues = the sum of issues_by_severity = the sum of issues_by_category,
\* files_with_issues + clean_files = total_files, and 0 <= clean_files <= total_files.
C28_SummaryConsistent ==
    result_pc = "final" =>
        /\ result_summary.total_issues = SumCounts(result_summary.issues_by_severity)
        /\ result_summary.total_issues = SumCounts(result_summary.issues_by_category)
        /\ result_summary.files_with_issues + result_summary.clean_files
           = result_summary.total_files
        /\ 0 <= result_summary.clean_files
        /\ result_summary.clean_files <= result_summary.total_files

-----------------------------------------------------------------------------
(* CodingStandardsLoader._parse_standards_content, one line per step.  The  *)
(* dict standards is a function on its six keys; None is "".                *)

\* the keyword lists of lines 137-156, in the order they are tried
category_keywords ==
    <<
      [category |-> "security",
       keywords |-> {
          <<"U+30BB", "U+30AD", "U+30E5", "U+30EA", "U+30C6", "U+30A3">>,
          <<"s", "e", "c", "u", "r", "i", "t", "y">>,
          <<"U+30BB", "U+30AD", "U+30E5", "U+30EA", "U+30C6", "U+30A3", "U+30FC">>,
          <<"U+8106", "U+5F31", "U+6027">> }],
      [category |-> "memory_management",
       keywords |-> {
          <<"U+30E1", "U+30E2", "U+30EA">>,
          <<"m", "e", "m", "o", "r", "y">>,
          <<"U+30E1", "U+30E2", "U+30EA", "U+30FC">>,
          <<"m", "a", "l", "l", "o", "c">>,
          <<"f", "r", "e", "e">> }],
      [category |-> "performance",
       keywords |-> {
          <<"U+30D1", "U+30D5", "U+30A9", "U+30FC", "U+30DE", "U+30F3", "U+30B9">>,
          <<"p", "e", "r", "f", "o", "r", "m", "a", "n", "c", "e">>,
          <<"U+6027", "U+80FD">>,
          <<"U+6700", "U+9069", "U+5316">>,
          <<"o", "p", "t", "i", "m", "i", "z", "a", "t", "i", "o", "n">> }],
      [category |-> "code_quality",
       keywords |-> {
          <<"U+54C1", "U+8CEA">>,
          <<"q", "u", "a", "l", "i", "t", "y">>,
          <<"U+30B3", "U+30FC", "U+30C9", "U+54C1", "U+8CEA">>,
          <<"c", "o", "d", "e", " ", "q", "u", "a", "l", "i", "t", "y">> }],
      [category |-> "error_handling",
       keywords |-> {
          <<"U+30A8", "U+30E9", "U+30FC">>,
          <<"e", "r", "r", "o", "r">>,
          <<"U+30A8", "U+30E9", "U+30FC", "U+30CF", "U+30F3", "U+30C9", "U+30EA", "U+30F3",
            "U+30B0">>,
          <<"e", "r", "r", "o", "r", " ", "h", "a", "n", "d", "l", "i", "n", "g">>,
          <<"U+4F8B", "U+5916">> }]
    >>

\* lines 135-158: the category of the first list with a keyword in the lower-cased line
_detect_category(line) ==
    LET line_lower == Lower(line)
        hits == {k \in 1..Len(category_keywords) :
                    \E keyword \in category_keywords[k].keywords : Contains(line_lower, keyword)}
    IN  IF hits = {} THEN "" ELSE category_keywords[Min(hits)].category

\* line 163
list_markers == {"-", "*", "U+2022", "U+30FB", "U+25CB", "U+25CF"}

\* s.endswith(sub)
EndsWith(s, sub) == Len(sub) <= Len(s) /\ StartsAt(s, sub, Len(s) - Len(sub) + 1)

\* the offset after ^\d+[.\)] in a line, or 0 when the line does not begin that way
NumberMarkEnd(line) ==
    LET digits == Min({q \in 0..Len(line) : q = Len(line) \/ ~IsDigit(line[q + 1])})
    IN  IF digits >= 1 /\ digits < Len(line) /\ line[digits + 1] \in {".", ")"}
        THEN digits + 1 ELSE 0

\* the offset after ^- \[[ x]\] in a line, or 0 when the line does not begin that way
CheckboxEnd(line) ==
    IF Len(line) >= 5 /\ StartsAt(line, <<"-", " ", "[">>, 1) /\ line[4] \in {" ", "x"}
       /\ line[5] = "]"
    THEN 5 ELSE 0

\* lines 178-181: the directive patterns that end with $ and those that do not
directive_endings ==
    {
      <<"U+3059", "U+308B", "U+3053", "U+3068">>,
      <<"U+3079", "U+304D">>,
      <<"U+3059", "U+308B">>,
      <<"U+3057", "U+3066", "U+304F", "U+3060", "U+3055", "U+3044">> }

directive_parts ==
    {
      <<"U+3092", "U+78BA", "U+8A8D">>,
      <<"U+3092", "U+30C1", "U+30A7", "U+30C3", "U+30AF">>,
      <<"U+3092", "U+691C", "U+8A3C">> }

\* lines 163-185; the line has been stripped and holds no line break
_is_review_point(line) ==
    \/ Len(line) >= 2 /\ line[1] \in list_markers /\ line[2] = " "
    \/ NumberMarkEnd(line) > 0 /\ NumberMarkEnd(line) < Len(line)
                               /\ IsReSpace(line[NumberMarkEnd(line) + 1])
    \/ CheckboxEnd(line) > 0
    \/ \E ending \in directive_endings : EndsWith(line, ending)
    \/ \E part \in directive_parts : Contains(line, part)

\* re.sub of a pattern that matched up to offset `end` (0: no match) followed by \s*
WithoutMark(line, end) ==
    IF end = 0 THEN line ELSE Slice(line, SkipSpaces(line, end), Len(line))

\* lines 190-194: the three substitutions one after the other, then strip()
_clean_review_point(line) ==
    LET first == WithoutMark(line, IF line # <<>> /\ line[1] \in list_markers THEN 1 ELSE 0)
        second == WithoutMark(first, NumberMarkEnd(first))
        third == WithoutMark(second, CheckboxEnd(second))
    IN  Strip(third)

\* lines 198-218, with the keyword lists of lines 201-205 and 208-211
_determine_priority(point) ==
    LET point_lower == Lower(point)
        high_priority_keywords ==
            {
              <<"U+30D0", "U+30C3", "U+30D5", "U+30A1", "U+30AA", "U+30FC", "U+30D0", "U+30FC",
                "U+30D5", "U+30ED", "U+30FC">>,
              <<"b", "u", "f", "f", "e", "r", " ", "o", "v", "e", "r", "f", "l", "o", "w">>,
              <<"U+30BB", "U+30AD", "U+30E5", "U+30EA", "U+30C6", "U+30A3">>,
              <<"s", "e", "c", "u", "r", "i", "t", "y">>,
              <<"U+30E1", "U+30E2", "U+30EA", "U+30EA", "U+30FC", "U+30AF">>,
              <<"m", "e", "m", "o", "r", "y", " ", "l", "e", "a", "k">>,
              <<"n", "u", "l", "l", " ", "p", "o", "i", "n", "t", "e", "r">>,
              <<"U+30CC", "U+30EB", "U+30DD", "U+30A4", "U+30F3", "U+30BF">>,
              <<"U+5371", "U+967A">>,
              <<"d", "a", "n", "g", "e", "r">>,
              <<"c", "r", "i", "t", "i", "c", "a", "l">>,
              <<"U+30AF", "U+30EA", "U+30C6", "U+30A3", "U+30AB", "U+30EB">> }
        medium_priority_keywords ==
            {
              <<"U+30D1", "U+30D5", "U+30A9", "U+30FC", "U+30DE", "U+30F3", "U+30B9">>,
              <<"p", "e", "r", "f", "o", "r", "m", "a", "n", "c", "e">>,
              <<"U+6700", "U+9069", "U+5316">>,
              <<"o", "p", "t", "i", "m", "i", "z", "a", "t", "i", "o", "n">>,
              <<"U+30A8", "U+30E9", "U+30FC", "U+30CF", "U+30F3", "U+30C9", "U+30EA", "U+30F3",
                "U+30B0">>,
              <<"e", "r", "r", "o", "r", " ", "h", "a", "n", "d", "l", "i", "n", "g">>,
              <<"U+4F8B", "U+5916", "U+51E6", "U+7406">> }
    IN  IF \E keyword \in high_priority_keywords : Contains(point_lower, keyword) THEN "high"
        ELSE IF \E keyword \in medium_priority_keywords : Contains(point_lower, keyword)
             THEN "medium"
        ELSE "low"

\* the keys of the dict of lines 95-102, in order
standard_keys ==
    <<"security", "memory_management", "performance", "code_quality", "error_handling",
      "custom">>

\* lines 123-128: the dict appended for a point
ReviewPoint(point, category) ==
    Rule(point, _determine_priority(point), TRUE, << <<"*", ".", "c">>, <<"*", ".", "h">> >>,
         category)

\* lines 109-128 without the continue of line 117: a category line goes on to line 120
ParseLine_no_continue(raw, category, dict) ==
    LET line == Strip(raw)
        now == IF line # <<>> /\ _detect_category(line) # "" THEN _detect_category(line)
               ELSE category
    IN  IF line # <<>> /\ _is_review_point(line) /\ _clean_review_point(line) # <<>>
        THEN <<now, [dict EXCEPT ![now] = Append(@, ReviewPoint(_clean_review_point(line), now))]>>
        ELSE <<now, dict>>

\* lines 109-128: <<current_category, standards>> after one line, from their values before
ParseLine(raw, category, dict) ==
    LET line == Strip(raw)
    IN  IF line = <<>> THEN <<category, dict>>
        ELSE IF _detect_category(line) # "" THEN <<_detect_category(line), dict>>
        ELSE IF _is_review_point(line) /\ _clean_review_point(line) # <<>>
             THEN <<category,
                    [dict EXCEPT ![category] =
                        Append(@, ReviewPoint(_clean_review_point(line), category))]>>
        ELSE <<category, dict>>

\* line 131: the categories that have rules, in key order
RECURSIVE NonEmptyFrom(_, _)
NonEmptyFrom(dict, k) ==
    IF k > Len(standard_keys) THEN <<>>
    ELSE (IF dict[standard_keys[k]] # <<>>
          THEN <<[category |-> standard_keys[k], rules |-> dict[standard_keys[k]]]>>
          ELSE <<>>)
         \o NonEmptyFrom(dict, k + 1)

MaxContentLines == 3

\* lines of a standards file: a heading with a keyword, a list item with a keyword, a
\* checkbox item, a numbered item, a list item that is only a number, an empty line, a
\* sentence, a directive
StandardsLineChoices ==
    <<
      <<"#", " ", "S", "e", "c", "u", "r", "i", "t", "y">>,
      <<"-", " ", "m", "e", "m", "o", "r", "y", " ", "c", "h", "e", "c", "k">>,
      <<"-", " ", "[", "x", "]", " ", "u", "s", "e", " ", "s", "t", "r", "n", "c", "p", "y">>,
      <<"1", ".", " ", "c", "h", "e", "c", "k", " ", "d", "a", "n", "g", "e", "r">>,
      <<"-", " ", "1", ".">>,
      <<>>,
      <<"p", "l", "a", "i", "n", " ", "t", "e", "x", "t">>,
      <<"U+5165", "U+529B", "U+3092", "U+78BA", "U+8A8D">>
    >>

\* every text of at most MaxContentLines lines
StandardsContents ==
    UNION {{JoinLines([k \in 1..n |-> StandardsLineChoices[f[k]]]) :
               f \in [1..n -> 1..Len(StandardsLineChoices)]} : n \in 1..MaxContentLines}

\* lines 95-106
InitLoader ==
    /\ OthersOff("loader")
    /\ content_lines \in {SplitLines(text) : text \in StandardsContents}
    /\ parsed_lines = 0
    /\ current_category = "custom"
    /\ parsed_standards = [key \in {standard_keys[k] : k \in 1..Len(standard_keys)} |-> <<>>]
    /\ parse_pc = "loop"
    /\ structured_standards = <<>>

\* lines 108-128: one iteration of the loop
parse_line ==
    /\ parse_pc = "loop"
    /\ parsed_lines < Len(content_lines)
    /\ LET after == ParseLine(content_lines[parsed_lines + 1], current_category,
                              parsed_standards)
       IN  /\ current_category' = after[1]
           /\ parsed_standards' = after[2]
    /\ parsed_lines' = parsed_lines + 1
    /\ UNCHANGED <<content_lines, parse_pc, structured_standards>>
    /\ UNCHANGED outside_loader_vars

\* line 131: the lines are exhausted, the empty categories are removed
parse_return ==
    /\ parse_pc = "loop"
    /\ parsed_lines = Len(content_lines)
    /\ structured_standards' = NonEmptyFrom(parsed_standards, 1)
    /\ parse_pc' = "done"
    /\ UNCHANGED <<content_lines, parsed_lines, current_category, parsed_standards>>
    /\ UNCHANGED outside_loader_vars

NextLoader ==
    \/ parse_line
    \/ parse_return

SpecLoader == InitLoader /\ [][NextLoader]_vars

\* the step deals with the next line of the content
ParsesOneLine == parse_pc = "loop" /\ parsed_lines' = parsed_lines + 1

\* the stripped line the next step deals with
NextStandardsLine == Strip(content_lines[parsed_lines + 1])

\* the step leaves every list of the dict as it was
AddsNoRule == parsed_standards' = parsed_standards

\* the step appends exactly one rule, to the list of the current category and tagged with it
AddsOneRule ==
    /\ current_category' = current_category
    /\ \A key \in DOMAIN parsed_standards \ {current_category} :
           parsed_standards'[key] = parsed_standards[key]
    /\ Len(parsed_standards'[current_category]) = Len(parsed_standards[current_category]) + 1
    /\ SubSeq(parsed_standards'[current_category], 1, Len(parsed_standards[current_category]))
       = parsed_standards[current_category]
    /\ parsed_standards'[current_category][Len(parsed_standards'[current_category])].category
       = current_category

\* the mapping returned by the step has no category with an empty list
ReturnsNoEmptyCategory ==
    parse_pc' = "done" /\ parse_pc = "loop" =>
        \A k \in 1..Len(structured_standards') : structured_standards'[k].rules # <<>>

\* C29 as stated: scanning the lines in order with current category initially 'custom', a
\* non-empty line containing a category keyword only switches the current category and never
\* adds a rule, even when it is a list item; every other line recognized as a review point
\* adds exactly one rule under the current category, with that category in its category
\* field; and the returned mapping contains no category with an empty rule list.
C29_EveryReviewPointAddsOne ==
    [][/\ ParsesOneLine /\ NextStandardsLine # <<>> =>
           IF _detect_category(NextStandardsLine) # ""
           THEN AddsNoRule /\ current_category' = _detect_category(NextStandardsLine)
           ELSE _is_review_point(NextStandardsLine) => AddsOneRule
       /\ ReturnsNoEmptyCategory]_vars

\* C29 amended: a non-empty line containing a category keyword only switches the current
\* category and never adds a rule, even when it is a list item; every other line recognized as
\* a review point whose text is not empty once its markers are removed adds exactly one rule
\* under the current category, with that text as description and that category in its
\* category field; every remaining line adds nothing and leaves the category; and the
\* returned mapping contains no category with an empty rule list.
C29_ReviewPointWithTextAddsOne ==
    [][/\ ParsesOneLine =>
           IF NextStandardsLine # <<>> /\ _detect_category(NextStandardsLine) # ""
           THEN AddsNoRule /\ current_category' = _detect_category(NextStandardsLine)
           ELSE IF /\ NextStandardsLine # <<>>
                   /\ _is_review_point(NextStandardsLine)
                   /\ _clean_review_point(NextStandardsLine) # <<>>
                THEN /\ AddsOneRule
                     /\ parsed_standards'[current_category][
                             Len(parsed_standards'[current_category])].description
                        = _clean_review_point(NextStandardsLine)
                ELSE AddsNoRule /\ current_category' = current_category
       /\ ReturnsNoEmptyCategory]_vars

\* a list item with a keyword switched the category and added nothing, a list item that is
\* only a number added nothing, and the item after them went under the new category: the
\* mapping returned holds that one category with that one rule
C29_Witness ==
    /\ parse_pc = "done"
    /\ Len(content_lines) = 3
    /\ _is_review_point(content_lines[1]) /\ _detect_category(content_lines[1]) # ""
    /\ _is_review_point(content_lines[2]) /\ _clean_review_point(content_lines[2]) = <<>>
    /\ Len(structured_standards) = 1
    /\ structured_standards[1].category = _detect_category(content_lines[1])
    /\ Len(structured_standards[1].rules) = 1
    /\ structured_standards[1].rules[1].description = _clean_review_point(content_lines[3])

-----------------------------------------------------------------------------
(* CCodeReviewAgent.setup_from_files: the files are loaded one per step and *)
(* the merged standards are saved by the ConfigManager.  A standards file   *)
(* is its path, whether it can be read, and the text that the extraction    *)
(* for its format returns.                                                  *)

\* _parse_standards_content from line k on
RECURSIVE ParseFrom(_, _, _, _)
ParseFrom(ls, k, category, dict) ==
    IF k > Len(ls) THEN NonEmptyFrom(dict, 1)
    ELSE LET after == Only({ParseLine(raw, category, dict) : raw \in {ls[k]}})
         IN  ParseFrom(ls, k + 1, after[1], after[2])

_parse_standards_content(text) ==
    ParseFrom(SplitLines(text), 1, "custom",
              [key \in {standard_keys[k] : k \in 1..Len(standard_keys)} |-> <<>>])

\* what load_standards_from_file raises for a file, "" if nothing: lines 34-35 with the
\* supported_formats of line 24, and the open() of the extraction
LoadError(file) ==
    LET supported_formats == { <<".", "p", "d", "f">>, <<".", "t", "x", "t">>, <<".", "m", "d">> }
    IN  IF ~\E fmt \in supported_formats : EndsWith(Lower(file.path), fmt) THEN "ValueError"
        ELSE IF ~file.readable THEN "OSError"
        ELSE ""

\* lines 39-51 for a file that loads: the extracted text is parsed
load_standards_from_file(file) == _parse_standards_content(file.text)

\* dict.update: the value of a key that is present is replaced where the key stands, a new
\* key goes to the end
RECURSIVE DictUpdate(_, _)
DictUpdate(dict, other) ==
    IF other = <<>> THEN dict
    ELSE LET at == {k \in 1..Len(dict) : dict[k].category = Head(other).category}
         IN  DictUpdate(IF at = {} THEN Append(dict, Head(other))
                        ELSE [dict EXCEPT ![Min(at)] = Head(other)],
                        Tail(other))

MaxStandardsFiles == 3

\* two files with rules under security, one of them with rules under custom as well; a
\* Markdown file; a format that is not supported; a file that cannot be read; an empty file
StandardsFiles ==
    {
      [path |-> <<"a", ".", "t", "x", "t">>, readable |-> TRUE,
       text |-> <<"-", " ", "u", "s", "e", " ", "s", "t", "r", "n", "c", "p", "y", "\n", "#",
                 " ", "S", "e", "c", "u", "r", "i", "t", "y", "\n", "-", " ", "c", "h", "e",
                 "c", "k", " ", "i", "n", "p", "u", "t">>],
      [path |-> <<"b", ".", "t", "x", "t">>, readable |-> TRUE,
       text |-> <<"#", " ", "S", "e", "c", "u", "r", "i", "t", "y", "\n", "-", " ", "v", "a",
                 "l", "i", "d", "a", "t", "e", " ", "l", "e", "n", "g", "t", "h">>],
      [path |-> <<"c", ".", "m", "d">>, readable |-> TRUE,
       text |-> <<"-", " ", "k", "e", "e", "p", " ", "f", "u", "n", "c", "t", "i", "o", "n", "s",
                 " ", "s", "h", "o", "r", "t">>],
      [path |-> <<"d", ".", "d", "o", "c">>, readable |-> TRUE,
       text |-> <<"-", " ", "n", "e", "v", "e", "r", " ", "r", "e", "a", "d">>],
      [path |-> <<"e", ".", "t", "x", "t">>, readable |-> FALSE,
       text |-> <<>>],
      [path |-> <<"f", ".", "t", "x", "t">>, readable |-> TRUE,
       text |-> <<>>]
    }

\* an agent whose ConfigManager has saved nothing yet or saved standards before
InitSetup ==
    /\ OthersOff("setup")
    /\ review_standards_file \in {<<>>, <<_get_default_review_standards>>}
    /\ rules_cache = <<>>
    /\ config_call = "none"
    /\ returned_path = <<>>
    /\ returned_rules = <<>>
    /\ config_calls = 0
    /\ review_standards_files \in
           UNION {[1..n -> StandardsFiles] : n \in 0..MaxStandardsFiles}
    /\ files_loaded = 0
    /\ all_standards = <<>>
    /\ setup_pc = "loop"
    /\ setup_returned = "none"

\* lines 136-139: the next file is loaded and merged
setup_load ==
    /\ setup_pc = "loop"
    /\ files_loaded < Len(review_standards_files)
    /\ LoadError(review_standards_files[files_loaded + 1]) = ""
    /\ all_standards' =
           DictUpdate(all_standards,
                      load_standards_from_file(review_standards_files[files_loaded + 1]))
    /\ files_loaded' = files_loaded + 1
    /\ UNCHANGED <<review_standards_files, setup_pc, setup_returned>>
    /\ UNCHANGED <<config_vars, outside_setup_config_vars>>

\* lines 138, 146-148: the load raises, False is returned
setup_load_failed ==
    /\ setup_pc = "loop"
    /\ files_loaded < Len(review_standards_files)
    /\ LoadError(review_standards_files[files_loaded + 1]) # ""
    /\ setup_pc' = "done"
    /\ setup_returned' = "False"
    /\ UNCHANGED <<review_standards_files, files_loaded, all_standards>>
    /\ UNCHANGED <<config_vars, outside_setup_config_vars>>

\* lines 142-144: save_review_standards rewrites the file, True is returned
setup_save ==
    /\ setup_pc = "loop"
    /\ files_loaded = Len(review_standards_files)
    /\ review_standards_file' = <<all_standards>>
    /\ config_call' = "save"
    /\ config_calls' = config_calls + 1
    /\ setup_pc' = "done"
    /\ setup_returned' = "True"
    /\ UNCHANGED <<review_standards_files, files_loaded, all_standards>>
    /\ UNCHANGED <<rules_cache, returned_path, returned_rules, outside_setup_config_vars>>

\* lines 142, 146-148: save_review_standards raises at open(), False is returned
setup_save_failed ==
    /\ setup_pc = "loop"
    /\ files_loaded = Len(review_standards_files)
    /\ config_call' = "save_failed"
    /\ config_calls' = config_calls + 1
    /\ setup_pc' = "done"
    /\ setup_returned' = "False"
    /\ UNCHANGED <<review_standards_files, files_loaded, all_standards>>
    /\ UNCHANGED <<review_standards_file, rules_cache, returned_path, returned_rules,
                   outside_setup_config_vars>>

NextSetup ==
    \/ setup_load
    \/ setup_load_failed
    \/ setup_save
    \/ setup_save_failed

SpecSetup == InitSetup /\ [][NextSetup]_vars

\* the rules a dict of standards holds under a category
RulesUnder(dict, category) ==
    Concat([k \in 1..Len(dict) |->
               IF dict[k].category = category THEN dict[k].rules ELSE <<>>])

\* the rules the files of the list contribute to a category, in the order of the list
ContributedRules(category) ==
    Concat([k \in 1..Len(review_standards_files) |->
               IF LoadError(review_standards_files[k]) # "" THEN <<>>
               ELSE RulesUnder(load_standards_from_file(review_standards_files[k]), category)])

\* loading one of the files of the list fails
SomeLoadFails ==
    \E k \in 1..Len(review_standards_files) : LoadError(review_standards_files[k]) # ""

\* C30: setup_from_files over a list of standards files saves, for each category, the rules
\* contributed by every file of the list that has that category (the rules of earlier files
\* are kept when a later file defines the same category); if loading any file fails, nothing
\* is saved and the standards saved before are unchanged.
C30_SavesEveryFilesRules ==
    [][/\ setup_returned' = "True" /\ setup_returned = "none" =>
           /\ review_standards_file' # <<>>
           /\ \A k \in 1..Len(standard_keys) :
                  RulesUnder(review_standards_file'[1], standard_keys[k])
                  = ContributedRules(standard_keys[k])
       /\ SomeLoadFails =>
           /\ review_standards_file' = review_standards_file
           /\ setup_returned' # "True"]_vars

\* the place of a category in the order security, memory, performance, style
CategoryRank(category) ==
    CASE category = "security" -> 1
      [] category = "memory" -> 2
      [] category = "performance" -> 3
      [] category = "style" -> 4
      [] OTHER -> 0

\* C16: in the issue list of one file all security issues precede all memory issues, which
\* precede all performance issues, which precede all style issues; within each category the
\* issues that carry a line number appear in non-decreasing line order.
C16_CategoryThenLineOrder ==
    \A a, b \in 1..Len(issues) :
        a < b => /\ CategoryRank(issues[a].category) <= CategoryRank(issues[b].category)
                 /\ (/\ issues[a].category = issues[b].category
                     /\ issues[a].line > 0
                     /\ issues[b].line > 0)
                    => issues[a].line <= issues[b].line

\* a finished run that reported in all four categories, twice in one of them on different lines
C16_Witness ==
    /\ apc = "done"
    /\ \A c \in {"security", "memory", "performance", "style"} : IssuesOf(c) # <<>>
    /\ \E a, b \in 1..Len(issues) :
           /\ a < b
           /\ issues[a].category = issues[b].category
           /\ 0 < issues[a].line
           /\ issues[a].line < issues[b].line

====
